---- MODULE Spec2Model ----
(***************************************************************************)
(* A model of the PEG matching engine of github.com/hucsmn/peg: the        *)
(* trampoline of context.go, the pattern steps of combining.go,            *)
(* predicating.go, grouping.go, text.go and the capturing patterns, and    *)
(* the entry points of peg.go.                                              *)
(*                                                                         *)
(* Text is a sequence of bytes, an ASCII byte written as its character;    *)
(* the two runes of more than one byte are those of LongRunes.  A pattern  *)
(* is a record tagged by "kind"; the                                       *)
(* pattern constructors below are the Go constructors, normalisations      *)
(* included.  One action is one iteration of the main loop of              *)
(* context.match: one call of ctx.pat.match(ctx).                          *)
(***************************************************************************)
EXTENDS Integers, Sequences, FiniteSets, TLC

VARIABLES
    config,       \* ctx.config
    text,         \* ctx.text
    at,           \* ctx.at
    n,            \* ctx.n
    pat,          \* ctx.pat
    locals,       \* ctx.locals
    isret,        \* ctx.isret
    ret,          \* ctx.ret
    groups,       \* ctx.groups
    namedGroups,  \* ctx.namedGroups
    levels,       \* ctx.levels
    callstack,    \* ctx.callstack
    scopes,       \* ctx.scopes
    capstack,     \* ctx.capstack
    err,          \* the error pat.match(ctx) handed to the main loop
    pcalc,        \* ctx.pcalc: its fields cached and lnends
    invoked,      \* history: the user functions invoked so far, in order
    main,         \* the pattern given to the entry point
    entry,        \* the entry point that was called
    usercfg,      \* the Config the entry point was called on
    result,       \* what the entry point returned
    last,         \* history: what the last step of the main loop did
    snaps,        \* history: ctx.capstack at each pending call
    conds,        \* history: per frame, the groups an If or Switch held
                  \* when it selected a branch after its condition matched
    peer          \* a second Match running on the same pattern: its ctx
                  \* and what it returned

vars == <<config, text, at, n, pat, locals, isret, ret, groups, namedGroups,
          levels, callstack, scopes, capstack, err, pcalc, invoked, main,
          entry,
          usercfg, result, last, snaps, conds, peer>>

-----------------------------------------------------------------------------
(* Bounds of the model. *)

MaxTextLen == 3
SmallCallstackLimit == 3
LargeCallstackLimit == 12
SmallRepeatLimit == 2
LargeRepeatLimit == 4
MaxInject == 2
MaxSetSize == 2

Alphabet == {"A", "B"}

RECURSIVE StringsOfLen(_)
StringsOfLen(k) ==
    IF k = 0 THEN {<<>>}
    ELSE {Append(s, ch) : s \in StringsOfLen(k - 1), ch \in Alphabet}

Texts == UNION {StringsOfLen(k) : k \in 0..MaxTextLen}

-----------------------------------------------------------------------------
(* errors.go *)

NoErr == "nil"
errorDismatch == "the pattern is dismatched"
errorNotFullMatched == "the pattern is not full matched"
errorCornerCase == "this corner case should never be reached"
errorCallstackOverflow == "callstack overflow"
errorReachedRepeatLimit == "repeat limit is reached"
errorExecuteWhenConsumed == "unable to execute pattern when some text already consumed by caller"
errorNilConstructor == "capture constructor is nil"
errorNilMainPattern == "the main pattern is nil"
\* the message names the variable; the model keeps one error for all names
errorUndefinedVar(name) == "variable is undefined"
\* returned by Ref when grouping is disabled
errorReferDisabled == "refer disabled"
\* errorf("abort:%s: %s", pos, msg): the model keeps msg
errorAbort(msg) == msg
\* an error returned by a user hook
errorHook == "hook error"
\* an error returned by a user constructor
errorUser == "user error"
\* the Go runtime panics when a string is sliced out of its bounds
panicSliceBounds == "panic: slice bounds out of range"
\* and when a slice is indexed out of its range
panicIndex == "panic: index out of range"

-----------------------------------------------------------------------------
(* Values of context.go. *)

NoNames == [k \in {} |-> <<>>]
NoPat == [kind |-> "nil"]
NilCons == [fn |-> "nil", name |-> ""]
VariableCons(name) == [fn |-> "newVariableConstructor", name |-> name]
UserCons(name) == [fn |-> "user", name |-> name]

\* returnValues{}
NoRet == [ok |-> FALSE, n |-> 0, groups |-> <<>>, namedGroups |-> NoNames]

\* localValues{}
NoLocals == [i |-> 0]

\* The context as one value, so that the methods of context.go are operators.
Ctx ==
    [config |-> config, text |-> text, at |-> at, n |-> n, pat |-> pat,
     locals |-> locals, isret |-> isret, ret |-> ret, groups |-> groups,
     namedGroups |-> namedGroups, levels |-> levels, callstack |-> callstack,
     scopes |-> scopes, capstack |-> capstack, err |-> err,
     pcalc |-> pcalc, invoked |-> invoked]

newContext(p, t, cfg) ==
    [config |-> cfg, text |-> t, at |-> 0, n |-> 0, pat |-> p,
     locals |-> NoLocals, isret |-> FALSE, ret |-> NoRet, groups |-> <<>>,
     namedGroups |-> NoNames, levels |-> 0, callstack |-> <<>>,
     scopes |-> <<>>, capstack |-> <<[cons |-> NilCons, args |-> <<>>]>>,
     err |-> NoErr, pcalc |-> [cached |-> 0, lnends |-> <<>>],
     invoked |-> <<>>]

fails(c, e) == [c EXCEPT !.err = e]

MergeNames(a, b) ==
    [k \in (DOMAIN a) \cup (DOMAIN b) |-> IF k \in DOMAIN b THEN b[k] ELSE a[k]]

\* call with > for >= in its test of the limit
call_late(c, callee) ==
    IF c.config.CallstackLimit > 0 /\ c.levels > c.config.CallstackLimit
    THEN fails(c, errorCallstackOverflow)
    ELSE [c EXCEPT
            !.callstack = Append(@, [pat |-> c.pat, at |-> c.at, n |-> c.n,
                                     locals |-> c.locals, levels |-> c.levels,
                                     groups |-> c.groups,
                                     namedGroups |-> c.namedGroups]),
            !.levels = @ + 1,
            !.n = 0,
            !.pat = callee,
            !.locals = NoLocals,
            !.isret = FALSE,
            !.ret = NoRet,
            !.groups = <<>>,
            !.namedGroups = NoNames]

call(c, callee) ==
    IF c.config.CallstackLimit > 0 /\ c.levels >= c.config.CallstackLimit
    THEN fails(c, errorCallstackOverflow)
    ELSE [c EXCEPT
            !.callstack = Append(@, [pat |-> c.pat, at |-> c.at, n |-> c.n,
                                     locals |-> c.locals, levels |-> c.levels,
                                     groups |-> c.groups,
                                     namedGroups |-> c.namedGroups]),
            !.levels = @ + 1,
            !.n = 0,
            !.pat = callee,
            !.locals = NoLocals,
            !.isret = FALSE,
            !.ret = NoRet,
            !.groups = <<>>,
            !.namedGroups = NoNames]

\* execute without its ctx.levels++
execute_uncounted(c, callee) ==
    IF c.n # 0 THEN fails(c, errorExecuteWhenConsumed)
    ELSE IF c.config.CallstackLimit > 0 /\ c.levels >= c.config.CallstackLimit
    THEN fails(c, errorCallstackOverflow)
    ELSE [c EXCEPT
            !.pat = callee,
            !.locals = NoLocals,
            !.isret = FALSE,
            !.ret = NoRet]

execute(c, callee) ==
    IF c.n # 0 THEN fails(c, errorExecuteWhenConsumed)
    ELSE IF c.config.CallstackLimit > 0 /\ c.levels >= c.config.CallstackLimit
    THEN fails(c, errorCallstackOverflow)
    ELSE [c EXCEPT
            !.levels = @ + 1,
            !.pat = callee,
            !.locals = NoLocals,
            !.isret = FALSE,
            !.ret = NoRet]

\* returns that ends the run when it pops the last frame of the callstack
returns_early(c, r) ==
    LET c1 == [c EXCEPT !.isret = TRUE, !.ret = r] IN
    IF Len(c.callstack) > 0
    THEN IF c.levels < 1 THEN fails(c1, errorCornerCase)
         ELSE LET frame == c.callstack[Len(c.callstack)] IN
              [c1 EXCEPT
                 !.callstack = SubSeq(@, 1, Len(@) - 1),
                 !.pat = IF Len(c.callstack) = 1 THEN NoPat ELSE frame.pat,
                 !.at = frame.at,
                 !.n = frame.n,
                 !.locals = frame.locals,
                 !.levels = frame.levels,
                 !.groups = IF r.ok THEN frame.groups \o r.groups
                            ELSE frame.groups,
                 !.namedGroups = IF r.ok
                                 THEN MergeNames(frame.namedGroups, r.namedGroups)
                                 ELSE frame.namedGroups]
    ELSE [c1 EXCEPT !.pat = NoPat]

\* returns that only counts the depth down by one, as its ctx.levels--
\* does, without taking the depth saved in the frame
returns_unwinding(c, r) ==
    LET c1 == [c EXCEPT !.isret = TRUE, !.ret = r] IN
    IF Len(c.callstack) > 0
    THEN IF c.levels < 1 THEN fails(c1, errorCornerCase)
         ELSE LET frame == c.callstack[Len(c.callstack)] IN
              [c1 EXCEPT
                 !.callstack = SubSeq(@, 1, Len(@) - 1),
                 !.pat = frame.pat,
                 !.at = frame.at,
                 !.n = frame.n,
                 !.locals = frame.locals,
                 !.levels = c.levels - 1,
                 !.groups = IF r.ok THEN frame.groups \o r.groups
                            ELSE frame.groups,
                 !.namedGroups = IF r.ok
                                 THEN MergeNames(frame.namedGroups, r.namedGroups)
                                 ELSE frame.namedGroups]
    ELSE [c1 EXCEPT !.pat = NoPat]

\* returns that hands the child's groups to the caller whether or not
\* the child matched
returns_merging(c, r) ==
    LET c1 == [c EXCEPT !.isret = TRUE, !.ret = r] IN
    IF Len(c.callstack) > 0
    THEN IF c.levels < 1 THEN fails(c1, errorCornerCase)
         ELSE LET frame == c.callstack[Len(c.callstack)] IN
              [c1 EXCEPT
                 !.callstack = SubSeq(@, 1, Len(@) - 1),
                 !.pat = frame.pat,
                 !.at = frame.at,
                 !.n = frame.n,
                 !.locals = frame.locals,
                 !.levels = frame.levels,
                 !.groups = frame.groups \o r.groups,
                 !.namedGroups = MergeNames(frame.namedGroups, r.namedGroups)]
    ELSE [c1 EXCEPT !.pat = NoPat]

\* returns without its ctx.pat = nil at the bottom of the callstack
returns_keeping_pat(c, r) ==
    LET c1 == [c EXCEPT !.isret = TRUE, !.ret = r] IN
    IF Len(c.callstack) > 0
    THEN IF c.levels < 1 THEN fails(c1, errorCornerCase)
         ELSE LET frame == c.callstack[Len(c.callstack)] IN
              [c1 EXCEPT
                 !.callstack = SubSeq(@, 1, Len(@) - 1),
                 !.pat = frame.pat,
                 !.at = frame.at,
                 !.n = frame.n,
                 !.locals = frame.locals,
                 !.levels = frame.levels,
                 !.groups = IF r.ok THEN frame.groups \o r.groups
                            ELSE frame.groups,
                 !.namedGroups = IF r.ok
                                 THEN MergeNames(frame.namedGroups, r.namedGroups)
                                 ELSE frame.namedGroups]
    ELSE c1

returns(c, r) ==
    LET c1 == [c EXCEPT !.isret = TRUE, !.ret = r] IN
    IF Len(c.callstack) > 0
    THEN IF c.levels < 1 THEN fails(c1, errorCornerCase)
         ELSE LET frame == c.callstack[Len(c.callstack)] IN
              [c1 EXCEPT
                 !.callstack = SubSeq(@, 1, Len(@) - 1),
                 !.pat = frame.pat,
                 !.at = frame.at,
                 !.n = frame.n,
                 !.locals = frame.locals,
                 !.levels = frame.levels,
                 !.groups = IF r.ok THEN frame.groups \o r.groups
                            ELSE frame.groups,
                 !.namedGroups = IF r.ok
                                 THEN MergeNames(frame.namedGroups, r.namedGroups)
                                 ELSE frame.namedGroups]
    ELSE [c1 EXCEPT !.pat = NoPat]

predicates(c, ok) ==
    returns(c, [ok |-> ok, n |-> 0, groups |-> c.groups,
                namedGroups |-> c.namedGroups])

commit(c) ==
    returns(c, [ok |-> TRUE, n |-> c.n, groups |-> c.groups,
                namedGroups |-> c.namedGroups])

\* justReturned that reads the flag and leaves it set
justReturned_reading(c) == [was |-> c.isret, ctx |-> c]

justReturned(c) == [was |-> c.isret, ctx |-> [c EXCEPT !.isret = FALSE]]

\* reachedRepeatLimit with > for >=
reachedRepeatLimit_late(c, times) ==
    c.config.RepeatLimit > 0 /\ times > c.config.RepeatLimit

reachedRepeatLimit(c, times) ==
    c.config.RepeatLimit > 0 /\ times >= c.config.RepeatLimit

consume(c, k) == [c EXCEPT !.n = @ + k, !.at = @ + k]

\* ctx.text[ctx.at:], ctx.text[ctx.at-ctx.n : ctx.at] panic out of the text
outOfText(c) == c.at > Len(c.text) \/ c.at < 0

span(c) == SubSeq(c.text, c.at - c.n + 1, c.at)

next(c, k) ==
    LET tail == SubSeq(c.text, c.at + 1, Len(c.text)) IN
    IF Len(tail) < k THEN tail ELSE SubSeq(tail, 1, k)

previous(c, k) ==
    IF c.at < k THEN SubSeq(c.text, 1, c.at)
    ELSE SubSeq(c.text, c.at - k + 1, c.at)

\* The value of a byte of the text.  An ASCII byte is written as its
\* character, a byte of a longer UTF-8 encoding as its two hex digits.
byte(b) ==
    CASE b = "\n" -> 10 [] b = "\r" -> 13
      [] b = "0" -> 48 [] b = "1" -> 49 [] b = "2" -> 50
      [] b = "3" -> 51 [] b = "4" -> 52
      [] b = "A" -> 65 [] b = "B" -> 66 [] b = "a" -> 97 [] b = "b" -> 98
      [] b = "9E" -> 158 [] b = "9F" -> 159 [] b = "BA" -> 186
      [] b = "C3" -> 195 [] b = "E1" -> 225

\* The runes of more than one byte that the model knows: U+00DF, the
\* small sharp s, and U+1E9E, the capital sharp s, are each other's case
\* variant and differ in the length of their encoding.
LongRunes == {"U+00DF", "U+1E9E"}

RuneError == "U+FFFD"

\* the code point of a rune
rune(r) ==
    CASE r = "U+00DF" -> 223 [] r = "U+1E9E" -> 7838 [] r = RuneError -> 65533
      [] OTHER -> byte(r)

\* utf8.EncodeRune
utf8_EncodeRune(r) ==
    CASE r = "U+00DF" -> <<"C3", "9F">>
      [] r = "U+1E9E" -> <<"E1", "BA", "9E">>
      [] OTHER -> <<r>>

\* utf8.DecodeRuneInString: the rune s starts with and its width; a byte
\* that starts no encoding is RuneError of width 1
utf8_DecodeRuneInString(s) ==
    LET starts(r) == LET e == utf8_EncodeRune(r) IN
                     Len(s) >= Len(e) /\ SubSeq(s, 1, Len(e)) = e IN
    IF \E r \in LongRunes : starts(r)
    THEN LET r == CHOOSE r \in LongRunes : starts(r) IN
         [r |-> r, n |-> Len(utf8_EncodeRune(r))]
    ELSE IF byte(s[1]) < 128 THEN [r |-> s[1], n |-> 1]
    ELSE [r |-> RuneError, n |-> 1]

\* utf8.DecodeRuneInString(ctx.text[ctx.at:]): width 0 at the end of text
nextRune(c) ==
    IF c.at >= Len(c.text) THEN [r |-> "", n |-> 0]
    ELSE utf8_DecodeRuneInString(SubSeq(c.text, c.at + 1, Len(c.text)))

-----------------------------------------------------------------------------
(* Case folding, the sorting of strings and the prefix tree of TS/TSI. *)

\* unicode.SimpleFold: the next rune of the case orbit of r
unicode_SimpleFold(r) ==
    CASE r = "A" -> "a" [] r = "a" -> "A" [] r = "B" -> "b" [] r = "b" -> "B"
      [] r = "U+00DF" -> "U+1E9E" [] r = "U+1E9E" -> "U+00DF"
      [] OTHER -> r

\* the keys of the map lengthChangedAfterFoldCase
lengthChangedAfterFoldCase == LongRunes

\* the loop of runeFoldCase: follow the orbit while it grows
RECURSIVE foldLoop(_, _)
foldLoop(r0, r) ==
    IF rune(r0) > rune(r) THEN foldLoop(unicode_SimpleFold(r0), r) ELSE r0

\* neither rune of foldCaseWorkAround is a rune of the model
runeFoldCase(r) ==
    LET r0 == unicode_SimpleFold(r) IN
    IF r0 = r THEN r ELSE foldLoop(r0, r)

\* for _, r := range text: the runes of text from byte i + 1 on, each
\* with the index of its first byte
RECURSIVE rangeString(_, _)
rangeString(s, i) ==
    IF i >= Len(s) THEN <<>>
    ELSE LET d == utf8_DecodeRuneInString(SubSeq(s, i + 1, Len(s))) IN
         <<[i |-> i + 1, r |-> d.r]>> \o rangeString(s, i + d.n)

couldSafelyFoldCase(s) ==
    \A k \in DOMAIN rangeString(s, 0) :
        rangeString(s, 0)[k].r \notin lengthChangedAfterFoldCase

RECURSIVE foldRunes(_, _, _)
foldRunes(s, rs, k) ==
    IF k > Len(rs) THEN <<>>
    ELSE (IF rs[k].r = RuneError THEN <<s[rs[k].i]>>
          ELSE utf8_EncodeRune(runeFoldCase(rs[k].r)))
         \o foldRunes(s, rs, k + 1)

foldCase(s) == foldRunes(s, rangeString(s, 0), 1)

-----------------------------------------------------------------------------
(* The position calculator.  calc is the fields cached and lnends of a     *)
(* positionCalculator, txt its text.                                        *)

RECURSIVE positionCalculator_caching(_, _, _)
\* a caching that takes every "\r" for the end of a line
positionCalculator_caching_bytewise(calc, txt, to) ==
    IF calc.cached >= to THEN calc
    ELSE LET b == txt[calc.cached + 1]
             lnend == calc.cached + 1
             ends == IF b = "\n" \/ b = "\r" THEN <<lnend>> ELSE <<>> IN
         positionCalculator_caching(
             [cached |-> calc.cached + 1, lnends |-> calc.lnends \o ends],
             txt, to)

\* positionCalculator.caching, for to <= len(text)
positionCalculator_caching(calc, txt, to) ==
    IF calc.cached >= to THEN calc
    ELSE LET b == txt[calc.cached + 1]
             lnend == calc.cached + 1
             ends == IF b = "\n" THEN <<lnend>>
                     ELSE IF b = "\r" /\ ~(/\ calc.cached + 1 < Len(txt)
                                            /\ txt[calc.cached + 2] = "\n")
                     THEN <<lnend>>
                     ELSE <<>> IN
         positionCalculator_caching(
             [cached |-> calc.cached + 1, lnends |-> calc.lnends \o ends],
             txt, to)

\* the binary search of positionCalculator.search over lnends[i:j], 0-based
RECURSIVE lnendsLoop(_, _, _, _)
lnendsLoop(lnends, offset, i, j) ==
    IF i >= j
    THEN IF i = 0 THEN [panic |-> TRUE, ln |-> 0, lnstart |-> 0]
         ELSE [panic |-> FALSE, ln |-> i, lnstart |-> lnends[i]]
    ELSE LET m == i + (j - i) \div 2 IN
         IF offset > lnends[m + 1] THEN lnendsLoop(lnends, offset, m + 1, j)
         ELSE IF offset < lnends[m + 1] THEN lnendsLoop(lnends, offset, i, m)
         ELSE [panic |-> FALSE, ln |-> m + 1, lnstart |-> offset]

\* positionCalculator.search, the calculator already caching up to offset:
\* lnends[i-1] with i = 0 is out of range
positionCalculator_search(calc, offset) ==
    IF Len(calc.lnends) = 0 THEN [panic |-> FALSE, ln |-> 0, lnstart |-> 0]
    ELSE lnendsLoop(calc.lnends, offset, 0, Len(calc.lnends))

utf8_RuneCountInString(s) == Len(rangeString(s, 0))

\* a search that counts the line ends before offset from the first on
positionCalculator_search_first(calc, offset) ==
    IF Len(calc.lnends) = 0 THEN [panic |-> FALSE, ln |-> 0, lnstart |-> 0]
    ELSE [panic |-> FALSE, ln |-> 1, lnstart |-> calc.lnends[1]]

\* positionCalculator.calculate: the calculator it leaves, the Position it
\* returns, or the panic it ends with
positionCalculator_calculate(calc, txt, offset) ==
    IF offset > Len(txt)
    THEN [calc |-> calc, panic |-> panicIndex,
          pos |-> [Offest |-> offset, Line |-> 0, Column |-> 0]]
    ELSE LET cd == positionCalculator_caching(calc, txt, offset)
             f == positionCalculator_search(cd, offset) IN
         IF f.panic
         THEN [calc |-> cd, panic |-> panicIndex,
               pos |-> [Offest |-> offset, Line |-> 0, Column |-> 0]]
         ELSE [calc |-> cd, panic |-> NoErr,
               pos |-> [Offest |-> offset, Line |-> f.ln,
                        Column |-> utf8_RuneCountInString(
                                       SubSeq(txt, f.lnstart + 1, offset))]]

\* ctx.tell(): the Position, the context it leaves, and the panic if any
tell(c) ==
    IF c.config.DisableLineColumnCounting
    THEN [ctx |-> c, panic |-> NoErr,
          pos |-> [Offest |-> c.at, Line |-> 0, Column |-> 0]]
    ELSE LET r == positionCalculator_calculate(c.pcalc, c.text, c.at) IN
         [ctx |-> [c EXCEPT !.pcalc = r.calc], panic |-> r.panic,
          pos |-> r.pos]

\* s < t for Go strings: the order of the bytes
RECURSIVE stringLess(_, _)
stringLess(s, t) ==
    IF t = <<>> THEN FALSE
    ELSE IF s = <<>> THEN TRUE
    ELSE IF s[1] # t[1] THEN byte(s[1]) < byte(t[1])
    ELSE stringLess(Tail(s), Tail(t))

\* sort.Strings, as an insertion sort
RECURSIVE sort_Strings(_)
sort_Strings(xs) ==
    IF xs = <<>> THEN <<>>
    ELSE LET rest == sort_Strings(Tail(xs))
             lower == {k \in DOMAIN rest : stringLess(rest[k], xs[1])}
             m == Cardinality(lower) IN
         SubSeq(rest, 1, m) \o <<xs[1]>> \o SubSeq(rest, m + 1, Len(rest))

\* the number of empty strings sorted starts with
RECURSIVE leadingEmpty(_)
leadingEmpty(sorted) ==
    IF sorted = <<>> \/ sorted[1] # <<>> THEN 0
    ELSE 1 + leadingEmpty(Tail(sorted))

RECURSIVE minWidth(_)
minWidth(sorted) ==
    IF Len(sorted) = 1 THEN Len(sorted[1])
    ELSE LET w == minWidth(Tail(sorted)) IN
         IF Len(sorted[1]) < w THEN Len(sorted[1]) ELSE w

\* the loop of buildPrefixTree over sorted[j:]: the keys, and for each
\* key the tails of the strings that start with it
RECURSIVE groupTails(_, _, _, _, _, _)
groupTails(sorted, width, j, lastprefix, tails, acc) ==
    IF j > Len(sorted)
    THEN [keys |-> Append(acc.keys, lastprefix),
          tails |-> Append(acc.tails, tails)]
    ELSE LET prefix == SubSeq(sorted[j], 1, width)
             tail == SubSeq(sorted[j], width + 1, Len(sorted[j])) IN
         IF prefix = lastprefix
         THEN groupTails(sorted, width, j + 1, lastprefix,
                         IF tail # tails[Len(tails)]
                         THEN Append(tails, tail) ELSE tails, acc)
         ELSE groupTails(sorted, width, j + 1, prefix, <<tail>>,
                         [keys |-> Append(acc.keys, lastprefix),
                          tails |-> Append(acc.tails, tails)])

RECURSIVE buildPrefixTree(_)
buildPrefixTree(sorted0) ==
    LET i == leadingEmpty(sorted0)
        sorted == SubSeq(sorted0, i + 1, Len(sorted0)) IN
    IF sorted = <<>>
    THEN [term |-> i > 0, width |-> 0, keys |-> <<>>, subs |-> <<>>]
    ELSE LET width == minWidth(sorted)
             g == groupTails(sorted, width, 2, SubSeq(sorted[1], 1, width),
                             <<SubSeq(sorted[1], width + 1, Len(sorted[1]))>>,
                             [keys |-> <<>>, tails |-> <<>>]) IN
         [term |-> i > 0, width |-> width, keys |-> g.keys,
          subs |-> [k \in DOMAIN g.tails |-> buildPrefixTree(g.tails[k])]]

\* the binary search of prefixTree.search over keys[i:j], 0-based
RECURSIVE searchLoop(_, _, _, _)
searchLoop(tree, s, i, j) ==
    IF i >= j THEN [i |-> 0, ok |-> FALSE]
    ELSE LET m == i + (j - i) \div 2 IN
         IF s = tree.keys[m + 1] THEN [i |-> m, ok |-> TRUE]
         ELSE IF stringLess(tree.keys[m + 1], s)
         THEN searchLoop(tree, s, m + 1, j)
         ELSE searchLoop(tree, s, i, m)

prefixTree_search(tree, s) ==
    IF Len(s) # tree.width THEN [i |-> 0, ok |-> FALSE]
    ELSE searchLoop(tree, s, 0, Len(tree.keys))

enter(c, namespace) == [c EXCEPT !.scopes = Append(@, namespace)]

leave(c) == [c EXCEPT !.scopes = SubSeq(@, 1, Len(@) - 1)]

RECURSIVE lookupFrom(_, _, _)
lookupFrom(sc, i, name) ==
    IF i < 1 THEN NoPat
    ELSE IF name \in DOMAIN sc[i] THEN sc[i][name]
    ELSE lookupFrom(sc, i - 1, name)

\* a lookup that prefers the outermost scope
lookup_outermost(c, name) ==
    IF \E k \in DOMAIN c.scopes : name \in DOMAIN c.scopes[k]
    THEN c.scopes[CHOOSE k \in DOMAIN c.scopes :
                      /\ name \in DOMAIN c.scopes[k]
                      /\ \A j \in 1..(k - 1) : name \notin DOMAIN c.scopes[j]][name]
    ELSE NoPat

lookup(c, name) == lookupFrom(c.scopes, Len(c.scopes), name)

group(c, grpname) ==
    IF c.config.DisableGrouping THEN c
    ELSE IF grpname # ""
    THEN [c EXCEPT !.namedGroups = MergeNames(@, (grpname :> span(c)))]
    ELSE [c EXCEPT !.groups = Append(@, span(c))]

\* the loops of refer over the saved frames, from the top of the stack
RECURSIVE referNamedFrom(_, _, _)
referNamedFrom(cs, i, grpname) ==
    IF i < 1 THEN <<>>
    ELSE IF grpname \in DOMAIN cs[i].namedGroups
    THEN cs[i].namedGroups[grpname]
    ELSE referNamedFrom(cs, i - 1, grpname)

RECURSIVE referGroupsFrom(_, _)
referGroupsFrom(cs, i) ==
    IF i < 1 THEN <<>>
    ELSE IF Len(cs[i].groups) # 0 THEN cs[i].groups[Len(cs[i].groups)]
    ELSE referGroupsFrom(cs, i - 1)

\* a refer that looks at the running frame only
refer_frame_only(c, grpname) ==
    IF c.config.DisableGrouping THEN <<>>
    ELSE IF grpname # ""
    THEN IF grpname \in DOMAIN c.namedGroups THEN c.namedGroups[grpname]
         ELSE <<>>
    ELSE IF Len(c.groups) # 0 THEN c.groups[Len(c.groups)]
    ELSE <<>>

refer(c, grpname) ==
    IF c.config.DisableGrouping THEN <<>>
    ELSE IF grpname # ""
    THEN IF grpname \in DOMAIN c.namedGroups THEN c.namedGroups[grpname]
         ELSE referNamedFrom(c.callstack, Len(c.callstack), grpname)
    ELSE IF Len(c.groups) # 0 THEN c.groups[Len(c.groups)]
    ELSE referGroupsFrom(c.callstack, Len(c.callstack))

push(c, cap) ==
    IF c.config.DisableCapturing THEN c
    ELSE IF Len(c.capstack) < 1 THEN fails(c, errorCornerCase)
    ELSE [c EXCEPT !.capstack[Len(c.capstack)].args = Append(@, cap)]

begin(c, cons) ==
    IF c.config.DisableCapturing THEN c
    ELSE [c EXCEPT !.capstack = Append(@, [cons |-> cons, args |-> <<>>])]

\* A call of a constructor, hook or injector, recorded: by names the caller
\* (CT, CC, CV, CK, Inject), user tells a user-defined function from a
\* built-in one, arg is its argument and out what it returned.
invoke(c, by, user, arg, out) ==
    [c EXCEPT !.invoked = Append(@, [by |-> by, user |-> user, arg |-> arg,
                                     out |-> out])]

\* thunk.cons(thunk.args): the built-in Variable constructor never fails; a
\* user constructor returns a capture or, when u.err, an error.
construct(cons, args) ==
    IF cons.fn = "newVariableConstructor"
    THEN [ctype |-> "Variable", name |-> cons.name, subs |-> args]
    ELSE [ctype |-> "cons", name |-> cons.name, subs |-> args]

\* an end that leaves the frame of a pattern that did not match
end_leaving(c, matched, u) ==
    IF c.config.DisableCapturing THEN c
    ELSE IF Len(c.capstack) < 2 THEN fails(c, errorCornerCase)
    ELSE IF ~matched THEN c
    ELSE LET thunk == c.capstack[Len(c.capstack)]
             c1 == [c EXCEPT !.capstack = SubSeq(@, 1, Len(@) - 1)] IN
         IF thunk.cons.fn = "nil" THEN fails(c1, errorNilConstructor)
         ELSE LET c2 == invoke(c1, IF thunk.cons.fn = "user" THEN "CC" ELSE "CV",
                               thunk.cons.fn = "user", thunk.args, u) IN
              IF thunk.cons.fn = "user" /\ u.err THEN fails(c2, errorUser)
              ELSE push(c2, construct(thunk.cons, thunk.args))

\* an end that constructs whether or not the pattern matched
end_unmatched(c, matched, u) ==
    IF c.config.DisableCapturing THEN c
    ELSE IF Len(c.capstack) < 2 THEN fails(c, errorCornerCase)
    ELSE LET thunk == c.capstack[Len(c.capstack)]
             c1 == [c EXCEPT !.capstack = SubSeq(@, 1, Len(@) - 1)] IN
         IF thunk.cons.fn = "nil" THEN fails(c1, errorNilConstructor)
         ELSE LET c2 == invoke(c1, IF thunk.cons.fn = "user" THEN "CC" ELSE "CV",
                               thunk.cons.fn = "user", thunk.args, u) IN
              IF thunk.cons.fn = "user" /\ u.err THEN fails(c2, errorUser)
              ELSE push(c2, construct(thunk.cons, thunk.args))

end(c, matched, u) ==
    IF c.config.DisableCapturing THEN c
    ELSE IF Len(c.capstack) < 2 THEN fails(c, errorCornerCase)
    ELSE LET thunk == c.capstack[Len(c.capstack)]
             c1 == [c EXCEPT !.capstack = SubSeq(@, 1, Len(@) - 1)] IN
         IF ~matched THEN c1
         ELSE IF thunk.cons.fn = "nil" THEN fails(c1, errorNilConstructor)
         ELSE LET c2 == invoke(c1, IF thunk.cons.fn = "user" THEN "CC" ELSE "CV",
                               thunk.cons.fn = "user", thunk.args, u) IN
              IF thunk.cons.fn = "user" /\ u.err THEN fails(c2, errorUser)
              ELSE push(c2, construct(thunk.cons, thunk.args))

-----------------------------------------------------------------------------
(* The pattern constructors. *)

True == [kind |-> "boolean", ok |-> TRUE]

False == [kind |-> "boolean", ok |-> FALSE]

T(s) ==
    IF Len(s) = 0 THEN True
    ELSE [kind |-> "text", insensitive |-> FALSE, text |-> s]

S(set) == [kind |-> "runeset", not |-> FALSE, charset |-> set]

NS(exclude) == [kind |-> "runeset", not |-> TRUE, charset |-> exclude]

\* Seq(sequence...): named SeqP here, Seq being the Sequences operator
SeqP(sequence) ==
    IF Len(sequence) = 0 THEN True
    ELSE IF Len(sequence) = 1 THEN sequence[1]
    ELSE [kind |-> "sequence", pats |-> sequence]

Alt(choices) ==
    IF Len(choices) = 0 THEN False
    ELSE IF Len(choices) = 1 THEN choices[1]
    ELSE [kind |-> "alternative", pats |-> choices]

\* Until, UntilB and the qualifiers, called on one pattern: Q0(choices...)
\* on several is Q0(Alt(choices...)).
Skip(k) == IF k <= 0 THEN True ELSE [kind |-> "skip", n |-> k]

Until(p) == [kind |-> "until", without |-> TRUE, pat |-> p]

UntilB(p) == [kind |-> "until", without |-> FALSE, pat |-> p]

Q0(p) == [kind |-> "atleast", n |-> 0, pat |-> p]

Q1(p) == [kind |-> "atleast", n |-> 1, pat |-> p]

Qn(least, p) ==
    [kind |-> "atleast", n |-> IF least < 0 THEN 0 ELSE least, pat |-> p]

Q01(p) == [kind |-> "optional", pat |-> p]

Qmn(m0, n0, p) ==
    LET n1 == IF n0 < 0 THEN 0 ELSE n0
        m1 == IF m0 < 0 THEN 0 ELSE m0
        lo == IF m1 > n1 THEN n1 ELSE m1
        hi == IF m1 > n1 THEN m1 ELSE n1 IN
    IF hi = 0 THEN True
    ELSE IF lo = 0 /\ hi = 1 THEN [kind |-> "optional", pat |-> p]
    ELSE [kind |-> "range", m |-> lo, n |-> hi, pat |-> p]

Test(p) == [kind |-> "predicate", not |-> FALSE, pat |-> p]

Not(p) == [kind |-> "predicate", not |-> TRUE, pat |-> p]

And(ps) == IF Len(ps) = 0 THEN True ELSE [kind |-> "and", pats |-> ps]

Or(ps) == IF Len(ps) = 0 THEN False ELSE [kind |-> "or", pats |-> ps]

If(cond, yes, no) == [kind |-> "if", cond |-> cond, yes |-> yes, no |-> no]

When(cond, then) == If(cond, then, False)

\* Switch(cond, then, rest...): args is the whole argument list
Switch(args) ==
    LET odd == Len(args) % 2 # 0
        k == Len(args) \div 2 IN
    [kind |-> "switch",
     cases |-> [j \in 1..k |-> [cond |-> args[2 * j - 1], then |-> args[2 * j]]],
     otherwise |-> IF odd THEN args[Len(args)] ELSE True]

Ref(grpname) == [kind |-> "refer", grpname |-> grpname]

Abort(msg) == [kind |-> "abort", msg |-> msg]

Trigger(hook, p) == [kind |-> "trigger", label |-> hook, pat |-> p]

G(p) == [kind |-> "grouping", pat |-> p, grpname |-> ""]

NG(grpname, p) == [kind |-> "grouping", pat |-> p, grpname |-> grpname]

\* fn names the user's injector; "nil" is a nil function
Inject(fn, p) ==
    IF fn = "nil" THEN p ELSE [kind |-> "injector", pat |-> p, label |-> fn]

Let(vs, ent) == [kind |-> "let", pat |-> ent, vars |-> vs]

V(varname) == [kind |-> "variable", varname |-> varname, cons |-> NilCons]

CV(varname) ==
    [kind |-> "variable", varname |-> varname, cons |-> VariableCons(varname)]

CK(toktype, p) == [kind |-> "token", pat |-> p, toktype |-> toktype]

CC(cons, p) == [kind |-> "cons", pat |-> p, cons |-> UserCons(cons)]

CT(cons, p) == [kind |-> "term", pat |-> p, cons |-> UserCons(cons)]

\* the pieces of TI(text) from byte at + 1 on, span bytes of a piece that
\* folds safely pending: a folded literal for each such piece, and for
\* each rune of lengthChangedAfterFoldCase the set of its case variants
RECURSIVE TI_pieces(_, _, _)
TI_pieces(txt, at0, span0) ==
    LET piece == [kind |-> "text", insensitive |-> TRUE,
                  text |-> foldCase(SubSeq(txt, at0 - span0 + 1, at0))] IN
    IF at0 >= Len(txt) THEN (IF span0 > 0 THEN <<piece>> ELSE <<>>)
    ELSE LET d == utf8_DecodeRuneInString(SubSeq(txt, at0 + 1, Len(txt))) IN
         IF d.r \in lengthChangedAfterFoldCase
         THEN (IF span0 > 0 THEN <<piece>> ELSE <<>>)
              \o <<S(LongRunes)>> \o TI_pieces(txt, at0 + d.n, 0)
         ELSE TI_pieces(txt, at0 + d.n, span0 + d.n)

TI(txt) ==
    IF Len(txt) = 0 THEN True
    ELSE LET pats == TI_pieces(txt, 0, 0) IN
         CASE Len(pats) = 0 -> True
           [] Len(pats) = 1 -> pats[1]
           [] OTHER -> SeqP(pats)

\* patternTextSet.set
patternTextSet_set(insensitive, textset) ==
    LET folded == IF insensitive
                  THEN [k \in DOMAIN textset |-> foldCase(textset[k])]
                  ELSE textset
        sorted == sort_Strings(folded) IN
    [kind |-> "textset", insensitive |-> insensitive, sorted |-> sorted,
     tree |-> buildPrefixTree(sorted)]

TS(textset) == patternTextSet_set(FALSE, textset)

Reverse(xs) == [k \in DOMAIN xs |-> xs[Len(xs) + 1 - k]]

TSI(textset) ==
    LET safe == SelectSeq(textset, couldSafelyFoldCase)
        unsafe == SelectSeq(textset, LAMBDA x : ~couldSafelyFoldCase(x))
        tail == IF Len(safe) # 0 THEN <<patternTextSet_set(TRUE, safe)>>
                ELSE <<>> IN
    IF Len(unsafe) = 0 THEN (IF tail = <<>> THEN False ELSE tail[1])
    ELSE LET rev == Reverse(sort_Strings(unsafe)) IN
         Alt([k \in DOMAIN rev |-> TI(rev[k])] \o tail)

SOL == [kind |-> "lineanchor", linestart |-> TRUE]

EOL == [kind |-> "lineanchor", linestart |-> FALSE]

EOF == [kind |-> "eof"]

-----------------------------------------------------------------------------
(* The steps of the patterns: pat.match(ctx).  An operator that invokes a  *)
(* user function takes what the function returned as u.                    *)

patternBoolean_match(c) == predicates(c, c.pat.ok)

patternText_match(c) ==
    IF outOfText(c) THEN fails(c, panicSliceBounds)
    ELSE LET t0 == next(c, Len(c.pat.text))
             t == IF c.pat.insensitive THEN foldCase(t0) ELSE t0 IN
         IF t = c.pat.text THEN commit(consume(c, Len(t)))
         ELSE predicates(c, FALSE)

\* the loop of patternTextSet.match: stack holds the bytes matched and the
\* subtree reached at each depth
RECURSIVE textSetLoop(_, _, _)
textSetLoop(c, stack, back) ==
    IF Len(stack) = 0 THEN predicates(c, FALSE)
    ELSE LET state == stack[Len(stack)] IN
         IF back
         THEN IF state.tree.term THEN commit(consume(c, state.n))
              ELSE textSetLoop(c, SubSeq(stack, 1, Len(stack) - 1), TRUE)
         ELSE LET nx == next(c, state.n + state.tree.width)
                  s0 == SubSeq(nx, state.n + 1, Len(nx))
                  s == IF c.pat.insensitive THEN foldCase(s0) ELSE s0
                  f == prefixTree_search(state.tree, s) IN
              IF ~f.ok THEN textSetLoop(c, stack, TRUE)
              ELSE textSetLoop(c,
                       Append(stack, [n |-> state.n + state.tree.width,
                                      tree |-> state.tree.subs[f.i + 1]]),
                       FALSE)

\* a text set that stops at the first element it finds
patternTextSet_match_shortest(c) ==
    IF outOfText(c) THEN fails(c, panicSliceBounds)
    ELSE LET hits == {k \in 0..Len(c.text) :
                         \E j \in DOMAIN c.pat.sorted :
                             /\ Len(c.pat.sorted[j]) = k
                             /\ next(c, k) = c.pat.sorted[j]} IN
         IF hits = {} THEN predicates(c, FALSE)
         ELSE commit(consume(c, CHOOSE k \in hits : \A h \in hits : k <= h))

patternTextSet_match(c) ==
    IF outOfText(c) THEN fails(c, panicSliceBounds)
    ELSE textSetLoop(c, <<[n |-> 0, tree |-> c.pat.tree]>>, FALSE)

\* SOL and EOL without the test of the other half of a CR LF
patternLineAnchorPredicate_match_bytewise(c) ==
    LET p == previous(c, 1)
        nx == next(c, 1) IN
    IF c.pat.linestart
    THEN predicates(c, p = <<>> \/ p = <<"\n">> \/ p = <<"\r">>)
    ELSE predicates(c, nx = <<>> \/ nx = <<"\r">> \/ nx = <<"\n">>)

patternLineAnchorPredicate_match(c) ==
    IF outOfText(c) THEN fails(c, panicSliceBounds)
    ELSE LET p == previous(c, 1)
             nx == next(c, 1) IN
         IF c.pat.linestart
         THEN IF p = <<>> THEN predicates(c, TRUE)
              ELSE predicates(c, p = <<"\n">>
                                 \/ (p = <<"\r">> /\ nx # <<"\n">>))
         ELSE IF nx = <<>> THEN predicates(c, TRUE)
              ELSE predicates(c, nx = <<"\r">>
                                 \/ (nx = <<"\n">> /\ p # <<"\r">>))

patternEOFPredicate_match(c) ==
    IF outOfText(c) THEN fails(c, panicSliceBounds)
    ELSE predicates(c, next(c, 1) = <<>>)

patternRuneSet_has(p, r) ==
    IF p.not THEN r \notin p.charset ELSE r \in p.charset

patternRuneSet_match(c) ==
    IF outOfText(c) THEN fails(c, panicSliceBounds)
    ELSE LET d == nextRune(c) IN
         IF d.n # 0 /\ patternRuneSet_has(c.pat, d.r)
         THEN commit(consume(c, d.n))
         ELSE predicates(c, FALSE)

RECURSIVE patternSequence_match(_)
\* a sequence that commits what it has when an element fails
patternSequence_match_lenient(c) ==
    IF c.locals.i < Len(c.pat.pats)
    THEN LET j == justReturned(c) IN
         IF ~j.was THEN call(j.ctx, c.pat.pats[c.locals.i + 1])
         ELSE IF ~j.ctx.ret.ok THEN commit(j.ctx)
         ELSE patternSequence_match(
                  [consume(j.ctx, j.ctx.ret.n) EXCEPT !.locals.i = @ + 1])
    ELSE commit(c)

\* a sequence whose elements all start where the first one did
patternSequence_match_restarting(c) ==
    IF c.locals.i < Len(c.pat.pats)
    THEN LET j == justReturned(c) IN
         IF ~j.was THEN call(j.ctx, c.pat.pats[c.locals.i + 1])
         ELSE IF ~j.ctx.ret.ok THEN predicates(j.ctx, FALSE)
         ELSE patternSequence_match(
                  [j.ctx EXCEPT !.n = @ + j.ctx.ret.n, !.locals.i = @ + 1])
    ELSE commit(c)

patternSequence_match(c) ==
    IF c.locals.i < Len(c.pat.pats)
    THEN LET j == justReturned(c) IN
         IF ~j.was THEN call(j.ctx, c.pat.pats[c.locals.i + 1])
         ELSE IF ~j.ctx.ret.ok THEN predicates(j.ctx, FALSE)
         ELSE patternSequence_match(
                  [consume(j.ctx, j.ctx.ret.n) EXCEPT !.locals.i = @ + 1])
    ELSE commit(c)

RECURSIVE patternAlternative_match(_)
\* an alternative that passes over the choice after one that failed
patternAlternative_match_skipping(c) ==
    IF c.locals.i < Len(c.pat.pats)
    THEN LET j == justReturned(c) IN
         IF ~j.was
         THEN IF c.locals.i = Len(c.pat.pats) - 1
              THEN execute(j.ctx, c.pat.pats[c.locals.i + 1])
              ELSE call(j.ctx, c.pat.pats[c.locals.i + 1])
         ELSE IF j.ctx.ret.ok THEN commit(consume(j.ctx, j.ctx.ret.n))
         ELSE patternAlternative_match([j.ctx EXCEPT !.locals.i = @ + 2])
    ELSE predicates(c, FALSE)

patternAlternative_match(c) ==
    IF c.locals.i < Len(c.pat.pats)
    THEN LET j == justReturned(c) IN
         IF ~j.was
         THEN IF c.locals.i = Len(c.pat.pats) - 1
              THEN execute(j.ctx, c.pat.pats[c.locals.i + 1])
              ELSE call(j.ctx, c.pat.pats[c.locals.i + 1])
         ELSE IF j.ctx.ret.ok THEN commit(consume(j.ctx, j.ctx.ret.n))
         ELSE patternAlternative_match([j.ctx EXCEPT !.locals.i = @ + 1])
    ELSE predicates(c, FALSE)

\* the loop of patternSkip.match from its counter i on
RECURSIVE skipLoop(_, _)
skipLoop(c, i) ==
    IF i >= c.pat.n THEN commit(c)
    ELSE IF outOfText(c) THEN fails(c, panicSliceBounds)
    ELSE LET d == nextRune(c)
             c1 == consume(c, d.n) IN
         IF d.n = 0 THEN predicates(c1, FALSE)
         ELSE skipLoop(c1, i + 1)

patternSkip_match(c) == skipLoop(c, 0)

RECURSIVE patternAnyRuneUntil_match(_)
patternAnyRuneUntil_match(c) ==
    IF reachedRepeatLimit(c, c.locals.i) THEN fails(c, errorReachedRepeatLimit)
    ELSE LET j == justReturned(c) IN
         IF ~j.was THEN call(j.ctx, c.pat.pat)
         ELSE IF j.ctx.ret.ok
         THEN commit(IF ~c.pat.without THEN consume(j.ctx, j.ctx.ret.n)
                     ELSE j.ctx)
         ELSE IF outOfText(j.ctx) THEN fails(j.ctx, panicSliceBounds)
         ELSE LET d == nextRune(j.ctx)
                  c1 == [consume(j.ctx, d.n) EXCEPT !.locals.i = @ + 1] IN
              IF d.n = 0 THEN predicates(c1, FALSE)
              ELSE patternAnyRuneUntil_match(c1)

\* a qualifier that stops after its first repetition
patternQualifierAtLeast_match_once(c) ==
    IF reachedRepeatLimit(c, c.locals.i) THEN fails(c, errorReachedRepeatLimit)
    ELSE LET j == justReturned(c) IN
         IF ~j.was THEN call(j.ctx, c.pat.pat)
         ELSE IF ~j.ctx.ret.ok
         THEN IF c.locals.i < c.pat.n THEN predicates(j.ctx, FALSE)
              ELSE commit(j.ctx)
         ELSE commit(consume(j.ctx, j.ctx.ret.n))

RECURSIVE patternQualifierAtLeast_match(_)
patternQualifierAtLeast_match(c) ==
    IF reachedRepeatLimit(c, c.locals.i) THEN fails(c, errorReachedRepeatLimit)
    ELSE LET j == justReturned(c) IN
         IF ~j.was THEN call(j.ctx, c.pat.pat)
         ELSE IF ~j.ctx.ret.ok
         THEN IF c.locals.i < c.pat.n THEN predicates(j.ctx, FALSE)
              ELSE commit(j.ctx)
         ELSE patternQualifierAtLeast_match(
                  [consume(j.ctx, j.ctx.ret.n) EXCEPT !.locals.i = @ + 1])

patternQualifierOptional_match(c) ==
    LET j == justReturned(c) IN
    IF ~j.was THEN call(j.ctx, c.pat.pat)
    ELSE IF ~j.ctx.ret.ok THEN predicates(j.ctx, TRUE)
    ELSE commit(consume(j.ctx, j.ctx.ret.n))

RECURSIVE patternQualifierRange_match(_)
\* a range that attempts its sub-pattern once more than its upper bound
patternQualifierRange_match_unbounded(c) ==
    IF c.locals.i < c.pat.n + 1
    THEN IF reachedRepeatLimit(c, c.locals.i)
         THEN fails(c, errorReachedRepeatLimit)
         ELSE LET j == justReturned(c) IN
              IF ~j.was THEN call(j.ctx, c.pat.pat)
              ELSE IF ~j.ctx.ret.ok
              THEN IF c.locals.i < c.pat.m THEN predicates(j.ctx, FALSE)
                   ELSE commit(j.ctx)
              ELSE patternQualifierRange_match(
                       [consume(j.ctx, j.ctx.ret.n) EXCEPT !.locals.i = @ + 1])
    ELSE commit(c)

patternQualifierRange_match(c) ==
    IF c.locals.i < c.pat.n
    THEN IF reachedRepeatLimit(c, c.locals.i)
         THEN fails(c, errorReachedRepeatLimit)
         ELSE LET j == justReturned(c) IN
              IF ~j.was THEN call(j.ctx, c.pat.pat)
              ELSE IF ~j.ctx.ret.ok
              THEN IF c.locals.i < c.pat.m THEN predicates(j.ctx, FALSE)
                   ELSE commit(j.ctx)
              ELSE patternQualifierRange_match(
                       [consume(j.ctx, j.ctx.ret.n) EXCEPT !.locals.i = @ + 1])
    ELSE commit(c)

\* a predicate that consumes what its sub-pattern matched
patternPredicate_match_consuming(c) ==
    LET j == justReturned(c) IN
    IF ~j.was THEN call(j.ctx, c.pat.pat)
    ELSE IF c.pat.not
    THEN predicates(j.ctx, ~j.ctx.ret.ok)
    ELSE IF j.ctx.ret.ok THEN commit(consume(j.ctx, j.ctx.ret.n))
    ELSE predicates(j.ctx, FALSE)

patternPredicate_match(c) ==
    LET j == justReturned(c) IN
    IF ~j.was THEN call(j.ctx, c.pat.pat)
    ELSE predicates(j.ctx, IF c.pat.not THEN ~j.ctx.ret.ok ELSE j.ctx.ret.ok)

RECURSIVE patternAndPredicate_match(_)
patternAndPredicate_match(c) ==
    IF c.locals.i < Len(c.pat.pats)
    THEN LET j == justReturned(c) IN
         IF ~j.was THEN call(j.ctx, c.pat.pats[c.locals.i + 1])
         ELSE IF ~j.ctx.ret.ok THEN predicates(j.ctx, FALSE)
         ELSE patternAndPredicate_match([j.ctx EXCEPT !.locals.i = @ + 1])
    ELSE predicates(c, TRUE)

RECURSIVE patternOrPredicate_match(_)
patternOrPredicate_match(c) ==
    IF c.locals.i < Len(c.pat.pats)
    THEN LET j == justReturned(c) IN
         IF ~j.was THEN call(j.ctx, c.pat.pats[c.locals.i + 1])
         ELSE IF j.ctx.ret.ok THEN predicates(j.ctx, TRUE)
         ELSE patternOrPredicate_match([j.ctx EXCEPT !.locals.i = @ + 1])
    ELSE predicates(c, FALSE)

\* an If that takes the text of its condition before it executes yes
patternIf_match_consuming(c) ==
    LET j == justReturned(c) IN
    IF ~j.was THEN call(j.ctx, c.pat.cond)
    ELSE IF j.ctx.ret.ok
    THEN execute(consume(j.ctx, j.ctx.ret.n), c.pat.yes)
    ELSE execute(j.ctx, c.pat.no)

patternIf_match(c) ==
    LET j == justReturned(c) IN
    IF ~j.was THEN call(j.ctx, c.pat.cond)
    ELSE IF j.ctx.ret.ok THEN execute(j.ctx, c.pat.yes)
    ELSE execute(j.ctx, c.pat.no)

\* a Switch that gives up at the first condition that fails
patternSwitch_match_untested(c) ==
    IF c.locals.i < Len(c.pat.cases)
    THEN LET j == justReturned(c) IN
         IF ~j.was THEN call(j.ctx, c.pat.cases[c.locals.i + 1].cond)
         ELSE IF j.ctx.ret.ok
         THEN execute(j.ctx, c.pat.cases[c.locals.i + 1].then)
         ELSE execute(j.ctx, c.pat.otherwise)
    ELSE execute(c, c.pat.otherwise)

RECURSIVE patternSwitch_match(_)
patternSwitch_match(c) ==
    IF c.locals.i < Len(c.pat.cases)
    THEN LET j == justReturned(c) IN
         IF ~j.was THEN call(j.ctx, c.pat.cases[c.locals.i + 1].cond)
         ELSE IF j.ctx.ret.ok
         THEN execute(j.ctx, c.pat.cases[c.locals.i + 1].then)
         ELSE patternSwitch_match([j.ctx EXCEPT !.locals.i = @ + 1])
    ELSE execute(c, c.pat.otherwise)

patternGrouping_match(c) ==
    LET j == justReturned(c) IN
    IF ~j.was THEN call(j.ctx, c.pat.pat)
    ELSE IF ~j.ctx.ret.ok THEN predicates(j.ctx, FALSE)
    ELSE LET c1 == consume(j.ctx, j.ctx.ret.n) IN
         IF ~c1.config.DisableGrouping /\ outOfText(c1)
         THEN fails(c1, panicSliceBounds)
         ELSE commit(group(c1, c.pat.grpname))

patternTextReferring_match(c) ==
    IF c.config.DisableGrouping THEN fails(c, errorReferDisabled)
    ELSE LET t == refer(c, c.pat.grpname) IN
         IF outOfText(c) THEN fails(c, panicSliceBounds)
         ELSE IF next(c, Len(t)) = t THEN commit(consume(c, Len(t)))
         ELSE predicates(c, FALSE)

\* an Abort that is a dismatch
patternAbort_match_dismatch(c) == predicates(c, FALSE)

patternAbort_match(c) == fails(c, errorAbort(c.pat.msg))

\* u.err: whether the user's hook returned an error
patternTrigger_match(c, u) ==
    LET j == justReturned(c) IN
    IF ~j.was THEN call(j.ctx, c.pat.pat)
    ELSE IF ~j.ctx.ret.ok THEN predicates(j.ctx, FALSE)
    ELSE LET head == tell(j.ctx)
             c1 == consume(head.ctx, j.ctx.ret.n) IN
         IF head.panic # NoErr THEN fails(head.ctx, head.panic)
         ELSE IF outOfText(c1) THEN fails(c1, panicSliceBounds)
         ELSE LET c2 == invoke(c1, "Trigger", TRUE,
                               [span |-> span(c1), pos |-> head.pos], u) IN
              IF u.err THEN fails(c2, errorHook) ELSE commit(c2)

\* u.n, u.ok: what the user's injector returned
patternInjector_match(c, u) ==
    LET j == justReturned(c) IN
    IF ~j.was THEN call(j.ctx, c.pat.pat)
    ELSE IF j.ctx.ret.ok
    THEN IF outOfText(j.ctx) THEN fails(j.ctx, panicSliceBounds)
         ELSE LET c1 == invoke(j.ctx, "Inject", TRUE,
                               next(j.ctx, j.ctx.ret.n), u) IN
              IF u.ok THEN commit(consume(c1, u.n))
              ELSE predicates(c1, FALSE)
    ELSE predicates(j.ctx, FALSE)

patternLet_match(c) ==
    LET j == justReturned(c) IN
    IF ~j.was THEN call(enter(j.ctx, c.pat.vars), c.pat.pat)
    ELSE returns(leave(j.ctx), j.ctx.ret)

patternCaptureVariable_match(c) ==
    LET j == justReturned(c) IN
    IF ~j.was
    THEN LET callee == lookup(j.ctx, c.pat.varname) IN
         IF callee = NoPat THEN fails(j.ctx, errorUndefinedVar(c.pat.varname))
         ELSE IF c.pat.cons.fn = "nil" THEN execute(j.ctx, callee)
         ELSE call(begin(j.ctx, c.pat.cons), callee)
    ELSE LET c1 == end(j.ctx, j.ctx.ret.ok, [err |-> FALSE]) IN
         IF c1.err # NoErr THEN c1 ELSE returns(c1, j.ctx.ret)

patternCaptureToken_match(c) ==
    LET j == justReturned(c) IN
    IF ~j.was THEN call(j.ctx, c.pat.pat)
    ELSE IF ~j.ctx.ret.ok THEN predicates(j.ctx, FALSE)
    ELSE LET head == tell(j.ctx)
             c1 == consume(head.ctx, j.ctx.ret.n) IN
         IF head.panic # NoErr THEN fails(head.ctx, head.panic)
         ELSE IF outOfText(c1) THEN fails(c1, panicSliceBounds)
         ELSE LET c2 == invoke(c1, "CK", FALSE, span(c1), [err |-> FALSE])
                  c3 == push(c2, [ctype |-> "Token", toktype |-> c.pat.toktype,
                                  value |-> span(c1), pos |-> head.pos]) IN
              IF c3.err # NoErr THEN c3 ELSE commit(c3)

\* u.err: whether the user's constructor returned an error
patternCaptureCons_match(c, u) ==
    LET j == justReturned(c) IN
    IF ~j.was THEN call(begin(j.ctx, c.pat.cons), c.pat.pat)
    ELSE LET c1 == end(j.ctx, j.ctx.ret.ok, u) IN
         IF c1.err # NoErr THEN c1 ELSE returns(c1, j.ctx.ret)

\* u.err: whether the user's constructor returned an error
patternCaptureTerm_match(c, u) ==
    LET j == justReturned(c) IN
    IF ~j.was THEN call(j.ctx, c.pat.pat)
    ELSE IF ~j.ctx.ret.ok THEN predicates(j.ctx, FALSE)
    ELSE LET head == tell(j.ctx)
             c1 == consume(head.ctx, j.ctx.ret.n) IN
         IF head.panic # NoErr THEN fails(head.ctx, head.panic)
         ELSE IF outOfText(c1) THEN fails(c1, panicSliceBounds)
         ELSE LET c2 == invoke(c1, "CT", TRUE, span(c1), u) IN
              IF u.err THEN fails(c2, errorUser)
              ELSE LET c3 == push(c2, [ctype |-> "term",
                                       name |-> c.pat.cons.name,
                                       value |-> span(c1), pos |-> head.pos]) IN
                   IF c3.err # NoErr THEN c3 ELSE commit(c3)

-----------------------------------------------------------------------------
(* The entry points of peg.go. *)

NilResult ==
    [nil |-> TRUE, Ok |-> FALSE, N |-> 0, Groups |-> <<>>,
     NamedGroups |-> NoNames, Captures |-> <<>>]

\* cfg.Match(pat, text), c being the context when ctx.match() came back; a
\* panic of the run leaves Match by that panic, kept here as its error
Config_Match(p, c) ==
    IF p.kind = "nil" THEN [r |-> NilResult, err |-> errorNilMainPattern]
    ELSE IF c.err # NoErr THEN [r |-> NilResult, err |-> c.err]
    ELSE IF c.ret.ok
    THEN [r |-> [nil |-> FALSE, Ok |-> TRUE, N |-> c.ret.n,
                 Groups |-> c.groups, NamedGroups |-> c.namedGroups,
                 Captures |-> c.capstack[1].args],
          err |-> NoErr]
    ELSE [r |-> [nil |-> FALSE, Ok |-> FALSE, N |-> 0, Groups |-> <<>>,
                 NamedGroups |-> NoNames, Captures |-> <<>>],
          err |-> NoErr]

\* the config each entry point hands to Match
EntryConfig(e, cfg) ==
    IF e \in {"MatchedPrefix", "IsFullMatched"}
    THEN [cfg EXCEPT !.DisableLineColumnCounting = TRUE,
                     !.DisableCapturing = TRUE]
    ELSE IF e = "Parse"
    THEN [cfg EXCEPT !.DisableLineColumnCounting = FALSE,
                     !.DisableCapturing = FALSE]
    ELSE cfg

\* m is what config.Match returned
Config_MatchedPrefix(m, t) ==
    IF m.err # NoErr \/ ~m.r.Ok THEN [prefix |-> <<>>, ok |-> FALSE]
    ELSE IF m.r.N > Len(t) THEN [prefix |-> <<panicSliceBounds>>, ok |-> FALSE]
    ELSE [prefix |-> SubSeq(t, 1, m.r.N), ok |-> TRUE]

Config_IsFullMatched(m, t) == m.err = NoErr /\ m.r.Ok /\ m.r.N = Len(t)

\* a Parse that does not ask for the whole text
Config_Parse_prefix(m, t) ==
    IF m.err # NoErr THEN [caps |-> <<>>, err |-> m.err]
    ELSE IF ~m.r.Ok THEN [caps |-> <<>>, err |-> errorDismatch]
    ELSE [caps |-> m.r.Captures, err |-> NoErr]

Config_Parse(m, t) ==
    IF m.err # NoErr THEN [caps |-> <<>>, err |-> m.err]
    ELSE IF ~m.r.Ok THEN [caps |-> <<>>, err |-> errorDismatch]
    ELSE IF m.r.N # Len(t) THEN [caps |-> <<>>, err |-> errorNotFullMatched]
    ELSE [caps |-> m.r.Captures, err |-> NoErr]

Entries == {"Match", "MatchedPrefix", "IsFullMatched", "Parse"}

\* The configurations a caller passes: both limits positive; one of them
\* disables the counting of lines and columns as well as capturing, one
\* of them grouping.
Configs ==
    {[CallstackLimit |-> l[1], RepeatLimit |-> l[2],
      DisableLineColumnCounting |-> FALSE, DisableGrouping |-> FALSE,
      DisableCapturing |-> d] :
        l \in {<<SmallCallstackLimit, SmallRepeatLimit>>,
               <<LargeCallstackLimit, LargeRepeatLimit>>},
        d \in BOOLEAN}
    \cup {[CallstackLimit |-> LargeCallstackLimit,
           RepeatLimit |-> LargeRepeatLimit,
           DisableLineColumnCounting |-> TRUE, DisableGrouping |-> FALSE,
           DisableCapturing |-> TRUE],
          [CallstackLimit |-> LargeCallstackLimit,
           RepeatLimit |-> LargeRepeatLimit,
           DisableLineColumnCounting |-> FALSE, DisableGrouping |-> TRUE,
           DisableCapturing |-> FALSE]}

-----------------------------------------------------------------------------
(* The patterns the entry points are called on. *)

tA == <<"A">>
tB == <<"B">>
tAB == <<"A", "B">>
sAB == S({"A", "B"})

\* rules that re-enter themselves before consuming anything
LeftRec == Let([var |-> SeqP(<<V("var"), T(tA)>>)], V("var"))
R0 == Let([R0 |-> V("R0")], V("R0"))
R1 == Let([R1 |-> When(True, V("R1"))], V("R1"))
RaRb == Let([Ra |-> V("Rb"), Rb |-> V("Ra")], V("Ra"))
SelfRecursive == <<LeftRec, R0, R1, RaRb>>

\* a rule that consumes before it re-enters itself
RightRec == Let([var |-> SeqP(<<T(tA), V("var")>>)], V("var"))
RightRecOpt == Let([var |-> SeqP(<<T(tA), Q01(V("var"))>>)], CV("var"))

\* captures pushed inside a sub-pattern that fails
AltCap == Alt(<<SeqP(<<CK(0, T(tA)), T(tB)>>), T(tA)>>)
TestCap == SeqP(<<Q01(Test(SeqP(<<CT("t", T(tA)), T(tB)>>))), T(tA)>>)
NotCap == Q01(Not(CK(0, T(tA))))
ConsCap == CC("c", Alt(<<SeqP(<<CK(0, T(tA)), T(tB)>>), CK(1, T(tA))>>))
VarCap == Let([var |-> SeqP(<<CK(0, T(tA)), T(tB)>>)],
              Alt(<<CV("var"), CC("c", SeqP(<<CK(1, sAB), T(tA)>>)), T(tA)>>))
Capturing == <<AltCap, TestCap, NotCap, ConsCap, VarCap>>

\* predicates after some text was consumed
Predicates ==
    <<SeqP(<<T(tA), Test(T(tB)), sAB>>),
      SeqP(<<sAB, Not(T(tB)), sAB>>),
      SeqP(<<T(tA), And(<<sAB, T(tB), Q0(sAB)>>), sAB>>),
      SeqP(<<Q01(T(tA)), Or(<<T(tAB), T(tB)>>), sAB>>),
      And(<<>>), Or(<<>>)>>

\* conditionals whose condition groups text: br is the selected branch
IfG(br) == SeqP(<<If(G(T(tA)), br, False), Q0(sAB)>>)
WhenG(br) == SeqP(<<When(NG("g", T(tA)), br), Q0(sAB)>>)
SwitchG(br) == SeqP(<<Switch(<<T(tB), T(tB), G(T(tA)), br, G(sAB)>>), Q0(sAB)>>)
LetG(br) == Let([var |-> sAB], SeqP(<<If(G(T(tA)), br, T(tB)), Q0(sAB)>>))
Conditionals ==
    <<IfG(T(tA)), IfG(SeqP(<<T(tA), T(tB)>>)), IfG(G(T(tA))),
      IfG(Let([var |-> T(tA)], V("var"))), IfG(CC("c", T(tA))),
      WhenG(T(tA)), WhenG(Let([var |-> T(tA)], NG("h", V("var")))),
      SwitchG(sAB), SwitchG(CC("c", G(T(tA)))),
      LetG(V("var")), LetG(CV("var")),
      Switch(<<T(tA), T(tA)>>)>>

\* conditionals whose other branches match where the selected one fails
Selecting ==
    <<If(T(tA), T(tAB), sAB),
      Switch(<<T(tB), T(tB), T(tA), T(tAB), sAB, sAB, sAB>>),
      Switch(<<T(tB), T(tB)>>),
      If(T(tB), sAB, If(T(tAB), T(tA), sAB))>>

\* nested scopes: a binding shadowed and restored, a name bound to a
\* variable, an unbound name on one path only, a Let that fails
Scoping ==
    <<Let([x |-> T(tA)], SeqP(<<Let([x |-> T(tB)], V("x")), V("x")>>)),
      Let([x |-> V("y"), y |-> T(tA)], Let([y |-> T(tB)], CV("x"))),
      Let([x |-> T(tA)], Alt(<<SeqP(<<T(tA), V("u")>>), T(tB)>>)),
      SeqP(<<Q01(Let([x |-> T(tA)], SeqP(<<V("x"), T(tB)>>))),
             Let([x |-> sAB], Q0(V("x")))>>)>>

\* a name bound twice and two groups, then a sequence that groups and
\* fails
Merging ==
    <<SeqP(<<NG("g", G(T(tA))), NG("g", G(sAB)),
             Q01(SeqP(<<NG("g", G(sAB)), False>>))>>)>>

\* runes skipped: more than the text has, after an injector, none
Skips ==
    <<SeqP(<<Skip(2), T(tA)>>), SeqP(<<Inject("fn", T(tA)), Skip(1)>>),
      SeqP(<<T(tB), Skip(0)>>)>>

\* tail calls one after another in one frame, below frames that have
\* consumed text
Chained ==
    <<SeqP(<<T(tA),
             Alt(<<T(tB),
                   Let([v |-> If(T(tB), sAB, V("w")),
                        w |-> Alt(<<T(tB), sAB>>)],
                       SeqP(<<sAB, V("v")>>))>>)>>)>>

\* injectors
Injectors ==
    <<Inject("fn", T(tA)), SeqP(<<Inject("fn", Q0(T(tA))), sAB>>),
      Inject("nil", T(tA))>>

\* qualifiers and Until
Qualifiers ==
    <<Q1(True), Q0(Q0(T(tA))), Qn(100, Q01(T(tA))),
      SeqP(<<Until(T(tB)), sAB>>), UntilB(T(tB)),
      Qmn(1, 3, T(tA)), Qmn(2, 0, sAB), Qmn(0, 1, T(tA)), Qmn(0, 0, T(tA)),
      SeqP(<<Q0(T(tA)), Q0(T(tB))>>), Q0(SeqP(<<T(tA), Q0(T(tB))>>)),
      Qn(2, sAB), Qn(0 - 1, T(tB))>>

\* Q0 over sub-patterns without side effects
Greedy ==
    <<Q0(T(tA)), Q0(T(tAB)), Q0(sAB), Q0(Alt(<<T(tAB), T(tA)>>)),
      SeqP(<<T(tB), Q0(T(tA))>>), Q0(True), Q0(False)>>

\* Seq(Q0(A), B, ...): B needs text that Q0(A) has taken
Committed ==
    <<SeqP(<<Q0(sAB), S({"B"}), T(tA)>>), SeqP(<<Q0(T(tA)), T(tA)>>),
      SeqP(<<Q0(T(tA)), T(tAB)>>), SeqP(<<Q0(T(tA)), T(tB)>>)>>

\* ordered choices: an earlier choice that is a prefix of a later one,
\* choices that group, a choice nested in a sequence
Choices ==
    <<Alt(<<T(tA), T(tAB)>>), Alt(<<T(tAB), T(tA), T(tB)>>),
      Alt(<<SeqP(<<T(tA), T(tA)>>), T(tB), sAB>>),
      SeqP(<<T(tA), Alt(<<T(tB), T(tAB), T(tA)>>)>>)>>
\* sequences of patterns without side effects
Sequences ==
    <<SeqP(<<T(tA), T(tB)>>), SeqP(<<sAB, T(tA), sAB>>),
      SeqP(<<T(tA), True, T(tAB)>>), SeqP(<<sAB, sAB, False>>),
      SeqP(<<Alt(<<T(tAB), T(tA)>>), T(tB)>>)>>
\* Qmn(m, n, p) with 0 <= m <= n over patterns without side effects
Ranges ==
    <<Qmn(2, 3, T(tA)), Qmn(2, 2, sAB), Qmn(1, 2, Alt(<<T(tAB), T(tA)>>)),
      SeqP(<<T(tB), Qmn(1, 2, T(tA))>>), Qmn(1, 2, True), Qmn(3, 3, sAB),
      Qmn(1, 1, T(tA))>>
\* patterns that raise an error under a combinator that would turn a
\* dismatch into success: those of AlwaysAbort on every text
AlwaysAbort ==
    <<Alt(<<Abort("abort:m"), T(tA)>>), Not(Abort("abort:m")),
      Q01(Abort("abort:m")), Q0(Abort("abort:m"))>>
Raising ==
    AlwaysAbort \o
    <<SeqP(<<Q01(SeqP(<<T(tA), Abort("abort:m")>>)), Q0(sAB)>>),
      Q01(V("x")), Not(Q0(True)),
      Alt(<<Trigger("h", T(tA)), Q0(sAB)>>),
      Q0(Not(CT("t", T(tB)))),
      Q01(Let([var |-> T(tA)], CC("c", CV("var"))))>>
\* Seq(NG(g, p), Ref(g)) and Seq(G(p), Ref("")), p without side effects
Doubles ==
    <<SeqP(<<NG("g", sAB), Ref("g")>>), SeqP(<<G(T(tA)), Ref("")>>),
      SeqP(<<NG("g", Alt(<<T(tAB), T(tA)>>)), Ref("g")>>),
      SeqP(<<G(Alt(<<T(tA), True>>)), Ref("")>>)>>
\* a name bound twice, in a saved frame and in a frame above it
BoundTwice == SeqP(<<NG("g", T(tA)), SeqP(<<NG("g", sAB), Ref("g")>>)>>)
\* references from frames above the binding, to a group of a choice that
\* failed, and to a name that is not bound
Referring ==
    Doubles \o
    <<BoundTwice, SeqP(<<G(sAB), Q0(Ref(""))>>),
      SeqP(<<G(T(tA)), Alt(<<SeqP(<<G(sAB), False>>), Ref("")>>)>>),
      SeqP(<<Ref("u"), NG("u", sAB), Q01(Ref("u"))>>)>>
GroupingChoices ==
    <<Alt(<<SeqP(<<G(T(tA)), T(tB)>>), NG("g", T(tB)), G(sAB)>>),
      If(G(T(tA)), Alt(<<G(T(tAB)), NG("g", T(tA))>>), False)>>

Mains ==
    SelfRecursive \o <<RightRec, RightRecOpt>> \o Capturing \o Predicates
    \o Conditionals \o Injectors \o Qualifiers \o Greedy \o Committed
    \o Choices \o GroupingChoices \o Sequences \o Ranges \o Raising
    \o Referring \o Selecting \o Scoping \o Merging \o Skips
    \o Chained
    \o <<NoPat, SeqP(<<>>), Alt(<<>>), Alt(<<T(<<>>)>>)>>

-----------------------------------------------------------------------------
(* The state machine: Init is an entry point called on a pattern and a     *)
(* text, just after newContext; a step is one pat.match(ctx) of the main   *)
(* loop of context.match; Returned is the entry point's epilogue.          *)

NoCond ==
    [set |-> FALSE, groups |-> <<>>, namedGroups |-> NoNames, execs |-> 0]

\* no stack frame
NoFrame ==
    [pat |-> NoPat, at |-> 0, n |-> 0, locals |-> NoLocals, levels |-> 0,
     groups |-> <<>>, namedGroups |-> NoNames]

\* no second Match
NoPeer == [running |-> FALSE]

\* entry point e of Config cfg is called on pattern p and text t, beside
\* the Match pr
StartBeside(p, t, e, cfg, pr) ==
    LET c == newContext(p, t, EntryConfig(e, cfg)) IN
    /\ config = c.config /\ text = c.text /\ at = c.at /\ n = c.n
    /\ pat = c.pat /\ locals = c.locals /\ isret = c.isret
    /\ ret = c.ret /\ groups = c.groups /\ namedGroups = c.namedGroups
    /\ levels = c.levels /\ callstack = c.callstack
    /\ scopes = c.scopes /\ capstack = c.capstack /\ err = c.err
    /\ pcalc = c.pcalc /\ invoked = c.invoked
    /\ main = p /\ entry = e /\ usercfg = cfg
    /\ result = [done |-> FALSE]
    /\ last = [op |-> "init", pat |-> NoPat, at |-> 0, i |-> 0,
               wasret |-> FALSE, retok |-> FALSE, retn |-> 0,
               levels |-> 0, count |-> 0, popped |-> FALSE,
               snap |-> <<>>, kept |-> NoCond, user |-> <<>>,
               retgroups |-> <<>>, retnamed |-> NoNames,
               groups |-> <<>>, namedGroups |-> NoNames,
               cursor |-> 0, n |-> 0, referred |-> <<>>,
               scopes |-> <<>>, capstack |-> <<>>, lnends |-> <<>>,
               frame |-> NoFrame, height |-> 0]
    /\ snaps = <<>>
    /\ conds = <<NoCond>>
    /\ peer = pr

\* entry point e of Config cfg is called on pattern p and text t
Start(p, t, e, cfg) == StartBeside(p, t, e, cfg, NoPeer)

\* an entry point among es is called on a pattern among ps and a Config
\* among cfgs
Called(ps, es, cfgs) ==
    \E k \in 1..Len(ps), t \in Texts, e \in es, cfg \in cfgs :
        Start(ps[k], t, e, cfg)

Init == Called(Mains, Entries, Configs)

\* the main loop is still running: for ctx.pat != nil, no error so far
Running(kind) ==
    /\ ~result.done
    /\ err = NoErr
    /\ pat.kind = kind

\* the loop counter at the last test at the head of the loop of a qualifier
\* or of Until in this step: ctx.locals.i, one more when the step first
\* records a repetition (a rune skipped, for Until)
counterAtLoopHead ==
    locals.i +
    (IF isret /\ ((pat.kind \in {"atleast", "range"} /\ ret.ok)
                  \/ (pat.kind = "until" /\ ~ret.ok /\ at < Len(text)))
     THEN 1 ELSE 0)

\* The step that leaves the context as r0.
Step(r0) ==
    \E r \in {r0} :
    LET grew == Len(r.callstack) > Len(callstack)
        popped == Len(r.callstack) < Len(callstack)
        top == conds[Len(conds)]
        selects == /\ r.err = NoErr /\ ~r.isret /\ ~grew
                   /\ pat.kind \in {"if", "switch"} /\ isret /\ ret.ok IN
    /\ config' = r.config /\ text' = r.text /\ at' = r.at /\ n' = r.n
    /\ pat' = r.pat /\ locals' = r.locals /\ isret' = r.isret
    /\ ret' = r.ret /\ groups' = r.groups /\ namedGroups' = r.namedGroups
    /\ levels' = r.levels /\ callstack' = r.callstack
    /\ scopes' = r.scopes /\ capstack' = r.capstack /\ err' = r.err
    /\ pcalc' = r.pcalc /\ invoked' = r.invoked
    /\ last' = [op |-> IF r.err # NoErr THEN "error"
                       ELSE IF r.isret THEN "return"
                       ELSE IF grew THEN "call" ELSE "execute",
                pat |-> pat, at |-> at - n, i |-> locals.i,
                wasret |-> isret, retok |-> ret.ok, retn |-> ret.n,
                levels |-> levels,
                count |-> IF pat.kind \in {"atleast", "range", "until"}
                          THEN counterAtLoopHead ELSE 0,
                popped |-> popped,
                snap |-> IF popped THEN snaps[Len(snaps)] ELSE <<>>,
                kept |-> IF r.err = NoErr /\ r.isret THEN top ELSE NoCond,
                user |-> SubSeq(r.invoked, Len(invoked) + 1, Len(r.invoked)),
                retgroups |-> ret.groups, retnamed |-> ret.namedGroups,
                groups |-> groups, namedGroups |-> namedGroups,
                cursor |-> at, n |-> n,
                referred |-> IF pat.kind = "refer"
                             THEN refer(Ctx, pat.grpname) ELSE <<>>,
                scopes |-> scopes, capstack |-> capstack,
                lnends |-> pcalc.lnends,
                frame |-> IF popped THEN callstack[Len(callstack)]
                          ELSE NoFrame,
                height |-> Len(callstack)]
    /\ snaps' = IF grew THEN Append(snaps, r.capstack)
                ELSE IF popped THEN SubSeq(snaps, 1, Len(snaps) - 1)
                ELSE snaps
    /\ conds' = IF grew THEN Append(conds, NoCond)
                ELSE IF popped THEN SubSeq(conds, 1, Len(conds) - 1)
                ELSE IF selects
                THEN [conds EXCEPT ![Len(conds)] =
                         [set |-> TRUE, groups |-> r.groups,
                          namedGroups |-> r.namedGroups,
                          execs |-> top.execs + 1]]
                ELSE IF r.err = NoErr /\ ~r.isret
                THEN [conds EXCEPT ![Len(conds)].execs = @ + 1]
                ELSE conds
    /\ UNCHANGED <<main, entry, usercfg, result, peer>>

Boolean == Running("boolean") /\ Step(patternBoolean_match(Ctx))

Text == Running("text") /\ Step(patternText_match(Ctx))

RuneSet == Running("runeset") /\ Step(patternRuneSet_match(Ctx))

TextSet == Running("textset") /\ Step(patternTextSet_match(Ctx))

LineAnchor ==
    Running("lineanchor") /\ Step(patternLineAnchorPredicate_match(Ctx))

EOFPredicate == Running("eof") /\ Step(patternEOFPredicate_match(Ctx))

Sequence == Running("sequence") /\ Step(patternSequence_match(Ctx))

Alternative == Running("alternative") /\ Step(patternAlternative_match(Ctx))

Skipping == Running("skip") /\ Step(patternSkip_match(Ctx))

AnyRuneUntil == Running("until") /\ Step(patternAnyRuneUntil_match(Ctx))

QualifierAtLeast ==
    Running("atleast") /\ Step(patternQualifierAtLeast_match(Ctx))

QualifierOptional ==
    Running("optional") /\ Step(patternQualifierOptional_match(Ctx))

QualifierRange == Running("range") /\ Step(patternQualifierRange_match(Ctx))

Predicate == Running("predicate") /\ Step(patternPredicate_match(Ctx))

AndPredicate == Running("and") /\ Step(patternAndPredicate_match(Ctx))

OrPredicate == Running("or") /\ Step(patternOrPredicate_match(Ctx))

IfStep == Running("if") /\ Step(patternIf_match(Ctx))

SwitchStep == Running("switch") /\ Step(patternSwitch_match(Ctx))

Grouping == Running("grouping") /\ Step(patternGrouping_match(Ctx))

TextReferring ==
    Running("refer") /\ Step(patternTextReferring_match(Ctx))

Aborting == Running("abort") /\ Step(patternAbort_match(Ctx))

\* the user's hook returns nil or an error
Triggering ==
    /\ Running("trigger")
    /\ IF isret /\ ret.ok
       THEN \E e \in BOOLEAN : Step(patternTrigger_match(Ctx, [err |-> e]))
       ELSE Step(patternTrigger_match(Ctx, [err |-> FALSE]))

\* the user's injector returns any count up to MaxInject and any verdict
Injector ==
    /\ Running("injector")
    /\ IF isret /\ ret.ok
       THEN \E k \in 0..MaxInject, ok \in BOOLEAN :
                Step(patternInjector_match(Ctx, [n |-> k, ok |-> ok]))
       ELSE Step(patternInjector_match(Ctx, [n |-> 0, ok |-> FALSE]))

LetStep == Running("let") /\ Step(patternLet_match(Ctx))

CaptureVariable ==
    Running("variable") /\ Step(patternCaptureVariable_match(Ctx))

CaptureToken == Running("token") /\ Step(patternCaptureToken_match(Ctx))

\* the user's constructor returns a capture or an error
CaptureCons ==
    /\ Running("cons")
    /\ IF isret /\ ret.ok /\ ~config.DisableCapturing
       THEN \E e \in BOOLEAN : Step(patternCaptureCons_match(Ctx, [err |-> e]))
       ELSE Step(patternCaptureCons_match(Ctx, [err |-> FALSE]))

CaptureTerm ==
    /\ Running("term")
    /\ IF isret /\ ret.ok
       THEN \E e \in BOOLEAN : Step(patternCaptureTerm_match(Ctx, [err |-> e]))
       ELSE Step(patternCaptureTerm_match(Ctx, [err |-> FALSE]))

\* ctx.match() came back (or the main pattern was nil): the entry point
\* builds what it returns
Returned ==
    /\ ~result.done
    /\ err # NoErr \/ pat.kind = "nil"
    /\ LET m == Config_Match(main, Ctx) IN
       result' = [done |-> TRUE, r |-> m.r, err |-> m.err,
                  out |-> CASE entry = "MatchedPrefix" ->
                                   Config_MatchedPrefix(m, text)
                            [] entry = "IsFullMatched" ->
                                   [full |-> Config_IsFullMatched(m, text)]
                            [] entry = "Parse" -> Config_Parse(m, text)
                            [] OTHER -> m]
    /\ UNCHANGED <<config, text, at, n, pat, locals, isret, ret, groups,
                   namedGroups, levels, callstack, scopes, capstack, err,
                   pcalc, invoked, main, entry, usercfg, last, snaps, conds,
                   peer>>

Next ==
    \/ Boolean \/ Text \/ RuneSet \/ Sequence \/ Alternative
    \/ Skipping \/ AnyRuneUntil \/ QualifierAtLeast \/ QualifierOptional
    \/ QualifierRange \/ Predicate \/ AndPredicate \/ OrPredicate
    \/ IfStep \/ SwitchStep \/ Grouping \/ Injector \/ LetStep
    \/ CaptureVariable \/ CaptureToken \/ CaptureCons \/ CaptureTerm
    \/ Aborting \/ Triggering \/ TextReferring
    \/ Returned

Spec == Init /\ [][Next]_vars

\* The runs whose termination is checked: Match called on every pattern
\* and text, with the small limits and the large ones, with and without
\* grouping; capturing, which adds no call and no loop, stays enabled.
FairConfigs == {cfg \in Configs : ~cfg.DisableCapturing}

FairInit == Called(Mains, {"Match"}, FairConfigs)

FairSpec == FairInit /\ [][Next]_vars /\ WF_vars(Next)

-----------------------------------------------------------------------------
(* The text patterns: TS and TSI on every small list of texts, and the    *)
(* line anchors at every offset, each applied to every small text.        *)

RECURSIVE StringsOver(_, _)
\* the concatenations of at most k of the strings of set pieces
StringsOver(pieces, k) ==
    IF k = 0 THEN {<<>>}
    ELSE LET shorter == StringsOver(pieces, k - 1) IN
         shorter \cup {s \o x : s \in shorter, x \in pieces}

RECURSIVE ListsOver(_, _)
\* the lists of at most k elements of set xs
ListsOver(xs, k) ==
    IF k = 0 THEN {<<>>}
    ELSE LET shorter == ListsOver(xs, k - 1) IN
         shorter \cup {Append(l, x) : l \in shorter, x \in xs}

\* the elements of the text sets, and the texts they are applied to
Keys ==
    {<<>>, <<"0">>, <<"1">>, <<"0", "0">>, <<"0", "1">>, <<"1", "0">>,
     <<"1", "1">>, <<"0", "1", "1">>}

DigitTexts == StringsOver({<<"0">>, <<"1">>, <<"2">>}, MaxTextLen)

\* the set of TestBasicPatterns, its texts not in order
Digits ==
    <<<<"1", "2", "3", "4">>, <<"0">>, <<"0", "2", "1">>, <<"0", "1">>,
      <<"1", "2", "3">>, <<"0", "1", "2">>, <<"0", "1", "1">>>>

TextSets == ListsOver(Keys, MaxSetSize) \cup {Digits}

Dot == NS({})

RECURSIVE Dots(_)
Dots(k) == IF k = 0 THEN <<>> ELSE <<Dot>> \o Dots(k - 1)

\* the runes of the case-insensitive texts, encoded
FoldKeys ==
    StringsOver({<<"a">>, utf8_EncodeRune("U+00DF"),
                 utf8_EncodeRune("U+1E9E")}, 2)

FoldTexts ==
    {t \in StringsOver({<<"a">>, <<"A">>, utf8_EncodeRune("U+00DF"),
                        utf8_EncodeRune("U+1E9E")}, MaxTextLen) :
         Len(t) <= MaxTextLen}

LineTexts == StringsOver({<<"A">>, <<"\n">>, <<"\r">>}, MaxTextLen)

Anchors == {SOL, EOL, EOF}

TextConfig ==
    [CallstackLimit |-> LargeCallstackLimit,
     RepeatLimit |-> LargeRepeatLimit,
     DisableLineColumnCounting |-> FALSE, DisableGrouping |-> FALSE,
     DisableCapturing |-> FALSE]

TextInit ==
    \/ \E ts \in TextSets, t \in DigitTexts :
           Start(TS(ts), t, "Match", TextConfig)
    \/ \E t \in DigitTexts :
           Start(SeqP(<<Dot, TS(Digits)>>), t, "Match", TextConfig)
    \/ \E x \in FoldKeys, y \in FoldKeys, t \in FoldTexts :
           Start(TSI(<<x, y>>), t, "Match", TextConfig)
    \/ \E k \in 0..MaxTextLen, a \in Anchors, t \in LineTexts :
           Start(SeqP(Dots(k) \o <<a>>), t, "Match", TextConfig)

TextNext ==
    \/ Text \/ RuneSet \/ TextSet \/ Sequence \/ Alternative
    \/ LineAnchor \/ EOFPredicate
    \/ Returned

TextSpec == TextInit /\ [][TextNext]_vars

-----------------------------------------------------------------------------
(* The position calculator on its own: a calculator of a text, asked for  *)
(* the positions of offsets in any order.                                  *)

PosTexts ==
    {t \in StringsOver({<<"A">>, <<"\n">>, <<"\r">>,
                        utf8_EncodeRune("U+00DF")}, MaxTextLen) :
         Len(t) <= MaxTextLen}

\* pcalc := &positionCalculator{text: t}
PosInit == \E t \in PosTexts : Start(NoPat, t, "Match", TextConfig)

\* pos := pcalc.calculate(offset); a panic ends the calls
Calculate ==
    /\ err = NoErr
    /\ \E offset \in 0..Len(text) :
           LET r == positionCalculator_calculate(pcalc, text, offset) IN
           /\ pcalc' = r.calc
           /\ err' = r.panic
           /\ last' = [op |-> "calculate", offset |-> offset, pos |-> r.pos,
                       lnends |-> pcalc.lnends]
    /\ UNCHANGED <<config, text, at, n, pat, locals, isret, ret, groups,
                   namedGroups, levels, callstack, scopes, capstack,
                   invoked, main, entry, usercfg, result, snaps, conds,
                   peer>>

PosNext == Calculate

PosSpec == PosInit /\ [][PosNext]_vars

-----------------------------------------------------------------------------
(* Properties. *)

ButLast(s) == SubSeq(s, 1, Len(s) - 1)

IsPrefix(s, t) == Len(s) <= Len(t) /\ SubSeq(t, 1, Len(s)) = s

Min(a, b) == IF a < b THEN a ELSE b

\* the last step was a return, to a caller, of a sub-pattern that failed
FailedToCaller == last.op = "return" /\ last.popped /\ ~ret.ok

\* C1: whenever a sub-pattern returns ok = false to its caller, the capture
\* frames are exactly as they were when the caller called it: every capture
\* pushed while it was being attempted is gone.  (A CC or CV caller opened
\* a frame of its own for the call, which it removes itself in its next
\* step: for it the frames below that one are compared.)
C1_CapturesDiscardedOnFailure ==
    FailedToCaller =>
        IF pat.kind \in {"cons", "variable"} /\ ~config.DisableCapturing
        THEN ButLast(capstack) = ButLast(last.snap)
        ELSE capstack = last.snap

PredicateKinds == {"predicate", "and", "or"}

\* C2: Test, Not, And and Or never consume text: their frame has consumed
\* nothing at any time, they return n = 0 whether they succeed or fail, the
\* caller's cursor is then where it was when it called them, and every
\* child of And and Or is called at that same cursor.
C2_PredicatesConsumeNothing ==
    /\ pat.kind \in PredicateKinds => n = 0
    /\ (last.pat.kind \in PredicateKinds /\ last.op = "return") =>
           ret.n = 0 /\ at = last.at
    /\ (last.pat.kind \in PredicateKinds /\ last.op = "call") => at = last.at

\* an And whose children consume text has succeeded after text was consumed
C2_Witness ==
    /\ last.pat.kind = "and" /\ last.op = "return" /\ ret.ok
    /\ last.at = 1 /\ last.popped /\ last.i = 2

\* C3: whenever the condition of an If, When or Switch succeeded and the
\* selected branch then succeeds, the groups and the named groups handed to
\* the caller contain those the frame held when the branch was selected
\* (the condition's), whatever pattern the branch is.  The caller takes
\* ret.groups; the entry point, at the bottom of the callstack, ctx.groups.
C3_ConditionGroupsKept ==
    (last.op = "return" /\ ret.ok /\ last.kept.set) =>
        LET handed == IF last.popped THEN ret
                      ELSE [groups |-> groups, namedGroups |-> namedGroups] IN
        /\ IsPrefix(last.kept.groups, handed.groups)
        /\ \A k \in DOMAIN last.kept.namedGroups :
               /\ k \in DOMAIN handed.namedGroups
               /\ handed.namedGroups[k] = last.kept.namedGroups[k]

\* C4: with capturing disabled no user-defined constructor is invoked at
\* any point of the run, neither the constructor of a CT nor that of a CC.
C4_NoUserConstructorWhenDisabled ==
    config.DisableCapturing =>
        \A k \in 1..Len(invoked) : invoked[k].by \notin {"CT", "CC"}

\* C5: when pat matched k bytes and fn returned (m, true), Inject succeeds
\* consuming min(k, m) bytes; when pat failed or fn returned false, Inject
\* fails consuming nothing.
C5_InjectConsumesMinimum ==
    (last.pat.kind = "injector" /\ last.op = "return") =>
        IF last.wasret /\ last.retok /\ last.user[1].out.ok
        THEN ret.ok /\ ret.n = Min(last.retn, last.user[1].out.n)
        ELSE ~ret.ok /\ ret.n = 0

InSeq(x, xs) == \E k \in 1..Len(xs) : xs[k] = x

\* C6: with a positive CallstackLimit the depth never exceeds the limit,
\* every tail call made with execute adds one to the depth, and every rule
\* that re-enters itself before consuming text (the left recursion, R0,
\* R1, Ra and Rb) ends the run, on every text, with the callstack-overflow
\* error and no result.
C6_SelfReentryOverflows ==
    /\ levels <= config.CallstackLimit
    /\ last.op = "execute" => levels = last.levels + 1
    /\ (result.done /\ InSeq(main, SelfRecursive)) =>
           result.err = errorCallstackOverflow /\ result.r.nil

\* R0 = V(R0), made of tail calls only, has ended in the overflow error
C6_Witness ==
    /\ result.done /\ main = R0 /\ Len(text) = MaxTextLen
    /\ result.err = errorCallstackOverflow
    /\ last.op = "error" /\ last.levels = config.CallstackLimit
    /\ last.pat = V("R0") /\ Len(callstack) = 1

LoopKinds == {"atleast", "range", "until"}

\* the last step ended the run with the repeat-limit error
RepeatLimitError == last.op = "error" /\ err = errorReachedRepeatLimit

\* the bytes one match of p takes, for p a literal or a rune set
unit(p) == IF p.kind = "text" THEN Len(p.text) ELSE 1

\* The counter of an activation counts that activation's repetitions only:
\* it is the text the frame has consumed, in matches of the sub-pattern
\* (in runes skipped, for Until).
OwnCounter ==
    /\ (pat.kind \in {"atleast", "range"}
            /\ pat.pat.kind \in {"text", "runeset"}) =>
           n = locals.i * unit(pat.pat)
    /\ pat.kind = "until" => n = locals.i

\* a sub-pattern matching the empty string inside Q0, Q1, Qn ends in the
\* repeat-limit error
EmptyLoops == <<Q1(True), Q0(Q0(T(tA))), Qn(100, Q01(T(tA)))>>

EmptyLoopsEndInError ==
    (result.done /\ InSeq(main, EmptyLoops)) =>
        result.err = errorReachedRepeatLimit /\ result.r.nil

\* C7 (as stated): a step of Q0, Q1, Qn, Qmn or Until ends the run with the
\* repeat-limit error exactly when the activation's counter has reached
\* RepeatLimit at the head of its loop; the counter is the activation's
\* own; Q1(True), Q0(Q0(T(A))), Qn(100, Q01(T(A))) always end in that error.
C7_RepeatLimitExactly ==
    /\ last.pat.kind \in LoopKinds =>
           (RepeatLimitError <=> last.count >= config.RepeatLimit)
    /\ OwnCounter
    /\ EmptyLoopsEndInError

\* C7 (amended): as stated for Q0, Q1, Qn and Until; a step of Qmn(m, n, p)
\* ends the run with the repeat-limit error exactly when the counter has
\* reached RepeatLimit while still below n: with the counter at n the loop
\* is left before the limit is tested, and Qmn commits.
C7_RepeatLimitBelowUpperBound ==
    /\ last.pat.kind \in LoopKinds =>
           (RepeatLimitError <=>
                /\ last.count >= config.RepeatLimit
                /\ last.pat.kind = "range" => last.count < last.pat.n)
    /\ OwnCounter
    /\ EmptyLoopsEndInError

\* a Qmn has ended the run with the repeat-limit error, after as many
\* repetitions as the limit
C7_Witness ==
    /\ RepeatLimitError /\ last.pat.kind = "range"
    /\ last.count = config.RepeatLimit /\ last.wasret /\ last.retok

\* C8: with positive limits every run ends: the entry point returns.
C8_EveryRunTerminates == <>(result.done)

\* the right-recursive rule has run over the longest text and ended
C8_Witness ==
    /\ result.done /\ main = RightRec /\ Len(text) = MaxTextLen
    /\ \A k \in 1..Len(text) : text[k] = "A"
    /\ result.err = NoErr /\ ~result.r.Ok

-----------------------------------------------------------------------------
(* Reference semantics of the patterns without side effects, by recursion  *)
(* on the pattern: the bytes p matches at offset k of t, or -1.            *)

RECURSIVE Pure(_)
Pure(p) ==
    \/ p.kind \in {"boolean", "text", "runeset"}
    \/ /\ p.kind \in {"sequence", "alternative"}
       /\ \A k \in 1..Len(p.pats) : Pure(p.pats[k])

RECURSIVE MatchLen(_, _, _)
RECURSIVE SeqLen(_, _, _, _)
RECURSIVE AltLen(_, _, _, _)
MatchLen(p, t, k) ==
    CASE p.kind = "boolean" -> IF p.ok THEN 0 ELSE -1
      [] p.kind = "text" ->
             IF /\ k + Len(p.text) <= Len(t)
                /\ SubSeq(t, k + 1, k + Len(p.text)) = p.text
             THEN Len(p.text) ELSE -1
      [] p.kind = "runeset" ->
             IF k < Len(t) /\ ((t[k + 1] \in p.charset) # p.not)
             THEN 1 ELSE -1
      [] p.kind = "sequence" -> SeqLen(p.pats, 1, t, k)
      [] p.kind = "alternative" -> AltLen(p.pats, 1, t, k)

\* the elements from the j-th on, one after the other
SeqLen(ps, j, t, k) ==
    IF j > Len(ps) THEN 0
    ELSE LET m == MatchLen(ps[j], t, k) IN
         IF m < 0 THEN -1
         ELSE LET rest == SeqLen(ps, j + 1, t, k + m) IN
              IF rest < 0 THEN -1 ELSE m + rest

\* the first of the choices from the j-th on that matches
AltLen(ps, j, t, k) ==
    IF j > Len(ps) THEN -1
    ELSE LET m == MatchLen(ps[j], t, k) IN
         IF m >= 0 THEN m ELSE AltLen(ps, j + 1, t, k)

\* the length of the longest run of successive non-empty matches of p from k
RECURSIVE ChainLen(_, _, _)
ChainLen(p, t, k) ==
    LET m == MatchLen(p, t, k) IN
    IF m <= 0 THEN 0 ELSE m + ChainLen(p, t, k + m)

\* the number of matches in that run
RECURSIVE ChainCount(_, _, _)
ChainCount(p, t, k) ==
    LET m == MatchLen(p, t, k) IN
    IF m <= 0 THEN 0 ELSE 1 + ChainCount(p, t, k + m)

-----------------------------------------------------------------------------

\* a Q0 over a sub-pattern without side effects
IsGreedy(p) == p.kind = "atleast" /\ p.n = 0 /\ Pure(p.pat)

\* C9 (as stated): every step of Q0(p) either calls p again or returns
\* success having consumed exactly the longest prefix of the text at its
\* cursor that is a run of successive matches of p.
C9_GreedyAlwaysSucceeds ==
    IsGreedy(last.pat) =>
        \/ last.op = "call"
        \/ /\ last.op = "return" /\ ret.ok
           /\ ret.n = ChainLen(last.pat.pat, text, last.at)

\* C9 (amended): Q0(p) returns exactly when the longest such prefix holds
\* fewer than RepeatLimit matches of p and p does not match the empty
\* string at its end, and it then returns success having consumed exactly
\* that prefix; otherwise the run ends, in Q0(p), with the repeat-limit
\* error.
C9_GreedyWhenItReturns ==
    IsGreedy(last.pat) =>
        LET p == last.pat.pat
            longest == ChainLen(p, text, last.at)
            limited == \/ ChainCount(p, text, last.at) >= config.RepeatLimit
                       \/ MatchLen(p, text, last.at + longest) = 0 IN
        \/ last.op = "call"
        \/ ~limited /\ last.op = "return" /\ ret.ok /\ ret.n = longest
        \/ limited /\ RepeatLimitError

\* Q0 has returned two matches of p, text being left over
C9_Witness ==
    /\ IsGreedy(last.pat) /\ last.op = "return" /\ ret.ok
    /\ ret.n = 2 /\ last.at = 1 /\ Len(text) = MaxTextLen /\ last.i = 2

\* Seq(Q0(A), B, ...) as the main pattern
IsCommitted == InSeq(main, Committed)

\* what follows Q0(A) in the main pattern
AfterQ0 == SeqP(SubSeq(main.pats, 2, Len(main.pats)))

\* B is called at the cursor Q0(A) left, after the longest run of matches
\* of A, and when an element fails the Seq fails in that same step, so
\* that nothing is attempted again; the Seq matches exactly when what
\* follows Q0(A) matches from that cursor.
NoBacktracking ==
    IsCommitted =>
        LET longest == ChainLen(main.pats[1].pat, text, 0) IN
        /\ (last.pat = main /\ last.op = "call" /\ last.wasret
                /\ last.i = 0) =>
               at = longest /\ pat = main.pats[2]
        /\ (last.pat = main /\ last.wasret /\ ~last.retok) =>
               last.op = "return" /\ ~ret.ok /\ pat.kind = "nil"
        /\ (result.done /\ result.err = NoErr) =>
               LET rest == MatchLen(AfterQ0, text, longest) IN
               /\ result.r.Ok <=> rest >= 0
               /\ result.r.Ok => result.r.N = longest + rest

\* C10 (as stated): no backtracking into Q0(A), and the Seq whose B needs
\* the last rune that Q0(A) takes dismatches every text.
C10_NeverGivesBack ==
    /\ NoBacktracking
    /\ (result.done /\ main = Committed[1]) =>
           result.err = NoErr /\ ~result.r.nil /\ ~result.r.Ok

\* C10 (amended): no backtracking into Q0(A), and the Seq whose B needs the
\* last rune that Q0(A) takes matches no text: it dismatches, or the run
\* ends with the repeat-limit error when the text holds RepeatLimit
\* matches of A.
C10_NeverGivesBackNorMatches ==
    /\ NoBacktracking
    /\ (result.done /\ main = Committed[1]) =>
           IF Len(text) >= config.RepeatLimit
           THEN result.err = errorReachedRepeatLimit /\ result.r.nil
           ELSE result.err = NoErr /\ ~result.r.nil /\ ~result.r.Ok

\* Seq(Q0(T(A)), T(A)) has dismatched a text it would match were one A
\* given back
C10_Witness ==
    /\ result.done /\ main = Committed[2] /\ text = <<"A", "A">>
    /\ result.err = NoErr /\ ~result.r.Ok
    /\ last.pat = main /\ last.i = 1 /\ last.wasret /\ ~last.retok

-----------------------------------------------------------------------------

IsSuffix(s, t) ==
    Len(s) <= Len(t) /\ SubSeq(t, Len(t) - Len(s) + 1, Len(t)) = s

\* C11: Alt attempts its choices strictly in order, the first first and
\* the next one only after the one before failed, each at the cursor Alt
\* started at and with nothing consumed; when a choice succeeds Alt
\* returns in that same step, success, with the bytes of that choice and
\* with its groups (after those its frame held, if any), and no later choice is attempted; an Alt of patterns
\* without side effects matches what its first matching choice matches,
\* and fails with n = 0 when every choice fails.
C11_OrderedChoice ==
    /\ (last.pat.kind = "alternative" /\ last.op \in {"call", "execute"}) =>
           LET k == IF last.wasret THEN last.i + 2 ELSE last.i + 1 IN
           /\ ~last.wasret => last.i = 0
           /\ last.wasret => ~last.retok
           /\ pat = last.pat.pats[k]
           /\ at = last.at /\ n = 0
           /\ (last.op = "execute") <=> (k = Len(last.pat.pats))
    /\ (last.pat.kind = "alternative" /\ last.op = "return") =>
           /\ last.wasret /\ last.retok /\ ret.ok
           /\ ret.n = last.retn
           /\ IsSuffix(last.retgroups, ret.groups)
           /\ \A g \in DOMAIN last.retnamed :
                  /\ g \in DOMAIN ret.namedGroups
                  /\ ret.namedGroups[g] = last.retnamed[g]
    /\ (result.done /\ InSeq(main, Choices) /\ result.err = NoErr) =>
           LET m == MatchLen(main, text, 0) IN
           /\ result.r.Ok <=> m >= 0
           /\ result.r.N = IF m >= 0 THEN m ELSE 0

\* Alt(T(A), T(AB)) on "AB" has matched "A" only, T(AB) never attempted
C11_Witness ==
    /\ result.done /\ main = Choices[1] /\ text = <<"A", "B">>
    /\ result.err = NoErr /\ result.r.Ok /\ result.r.N = 1
    /\ last.pat = main /\ last.i = 0 /\ last.wasret /\ last.retok

\* C12: Seq attempts its elements in order, the first at its own cursor
\* and each next one, only after the one before succeeded, where that one
\* ended; after the last it returns success with the sum of the bytes of
\* its elements; when an element fails it returns in that same step,
\* failure with n = 0, and its caller's cursor is where Seq started; a
\* Seq of patterns without side effects matches exactly when its elements
\* match one after the other.
C12_SequenceInOrder ==
    /\ (last.pat.kind = "sequence" /\ last.op = "call") =>
           /\ ~last.wasret => last.i = 0 /\ last.n = 0
           /\ last.wasret => last.retok
           /\ pat = last.pat.pats[last.i + (IF last.wasret THEN 2 ELSE 1)]
           /\ at = last.cursor + (IF last.wasret THEN last.retn ELSE 0)
           /\ at = last.at + last.n + (IF last.wasret THEN last.retn ELSE 0)
    /\ (last.pat.kind = "sequence" /\ last.op = "return") =>
           /\ last.wasret
           /\ IF last.retok
              THEN /\ last.i = Len(last.pat.pats) - 1
                   /\ ret.ok /\ ret.n = last.n + last.retn
              ELSE /\ ~ret.ok /\ ret.n = 0
                   /\ last.popped => at = last.at
    /\ (result.done /\ InSeq(main, Sequences) /\ result.err = NoErr) =>
           LET m == SeqLen(main.pats, 1, text, 0) IN
           /\ result.r.Ok <=> m >= 0
           /\ result.r.N = IF m >= 0 THEN m ELSE 0

\* a Seq under an Alt has failed at its second element after its first
\* matched, and the Alt is back at the cursor the Seq started at
C12_Witness ==
    /\ last.pat = SeqP(<<T(tA), T(tA)>>) /\ last.op = "return"
    /\ last.i = 1 /\ last.wasret /\ ~last.retok /\ last.n = 1
    /\ last.popped /\ ~ret.ok /\ at = 0 /\ pat.kind = "alternative"

-----------------------------------------------------------------------------

\* the successive matches of p from offset k of t, counted up to cap
RECURSIVE RepCount(_, _, _, _)
RepCount(p, t, k, cap) ==
    IF cap = 0 THEN 0
    ELSE LET m == MatchLen(p, t, k) IN
         IF m < 0 THEN 0 ELSE 1 + RepCount(p, t, k + m, cap - 1)

\* the bytes of those matches
RECURSIVE RepLen(_, _, _, _)
RepLen(p, t, k, cap) ==
    IF cap = 0 THEN 0
    ELSE LET m == MatchLen(p, t, k) IN
         IF m < 0 THEN 0 ELSE m + RepLen(p, t, k + m, cap - 1)

\* a step of a Qmn(m, n, p), p without side effects
IsRange(p) == p.kind = "range" /\ Pure(p.pat)

\* C13 (as stated): a step of Qmn(m, n, p) either attempts p, for the
\* n-th time at most, or returns: failure with n = 0 when p matches k < m
\* successive times at the cursor Qmn started at (k counted up to n),
\* success with the bytes of those min(k, n) matches otherwise.
C13_RangeTakesUpToN ==
    IsRange(last.pat) =>
        LET p == last.pat.pat
            k == RepCount(p, text, last.at, last.pat.n) IN
        \/ last.op = "call" /\ last.count < last.pat.n
        \/ /\ last.op = "return"
           /\ IF k < last.pat.m THEN ~ret.ok /\ ret.n = 0
              ELSE ret.ok /\ ret.n = RepLen(p, text, last.at, last.pat.n)

\* C13 (amended): as stated when p matches fewer than RepeatLimit
\* successive times or RepeatLimit is not below n; when p matches
\* RepeatLimit times and RepeatLimit < n, the run ends in Qmn with the
\* repeat-limit error, before p is attempted again.
C13_RangeTakesUpToNWithinLimit ==
    IsRange(last.pat) =>
        LET p == last.pat.pat
            k == RepCount(p, text, last.at, last.pat.n)
            limited == /\ k >= config.RepeatLimit
                       /\ config.RepeatLimit < last.pat.n IN
        \/ last.op = "call" /\ last.count < last.pat.n
        \/ limited /\ RepeatLimitError
        \/ /\ ~limited /\ last.op = "return"
           /\ IF k < last.pat.m THEN ~ret.ok /\ ret.n = 0
              ELSE ret.ok /\ ret.n = RepLen(p, text, last.at, last.pat.n)

\* Qmn(2, 2, S(AB)) has taken two of three runes without a third attempt
C13_Witness ==
    /\ last.pat = Qmn(2, 2, sAB) /\ Len(text) = 3
    /\ last.op = "return" /\ ret.ok /\ ret.n = 2
    /\ last.count = 2 /\ last.wasret /\ last.retok

-----------------------------------------------------------------------------

\* the errors a run hands to Match as a return value
ReturnedErrors ==
    {errorCornerCase, errorCallstackOverflow, errorReachedRepeatLimit,
     errorExecuteWhenConsumed, errorNilConstructor, errorNilMainPattern,
     errorUndefinedVar(""), errorUser, errorReferDisabled,
     errorAbort("abort:m"), errorHook}

\* the three outcomes of Config.Match
MatchOutcomes ==
    \/ /\ result.err \in ReturnedErrors /\ result.r.nil
       /\ (err = result.err \/ (main = NoPat /\ err = NoErr))
    \/ /\ result.err = NoErr /\ err = NoErr /\ main # NoPat /\ ~ret.ok
       /\ ~result.r.nil /\ ~result.r.Ok /\ result.r.N = 0
       /\ result.r.Groups = <<>> /\ result.r.NamedGroups = NoNames
       /\ result.r.Captures = <<>>
    \/ /\ result.err = NoErr /\ err = NoErr /\ main # NoPat /\ ret.ok
       /\ ~result.r.nil /\ result.r.Ok /\ result.r.N = ret.n

\* C14: Config.Match returns, and what it returns is one of: no result
\* and the error of the run (or of the nil main pattern); a Result with
\* Ok = false, N = 0, no groups and no captures, and no error; a Result
\* with Ok = true and N the bytes matched, and no error.  A dismatch is
\* not an error, and every failing return of a run carries n = 0.
C14_MatchOutcomes ==
    /\ err \notin {panicSliceBounds, panicIndex}
    /\ result.done => MatchOutcomes
    /\ ~ret.ok => ret.n = 0

\* the same for the runs that the Go runtime does not end with a panic
MatchOutcomesUnlessPanic ==
    /\ (result.done /\ err \notin {panicSliceBounds, panicIndex}) =>
           MatchOutcomes
    /\ ~ret.ok => ret.n = 0

\* C15: Parse always runs with capturing and with the counting of lines
\* and columns enabled, whatever the Config it is called on says; it
\* returns the error of the run when the run raised one, the dismatch
\* error when the pattern did not match, the not-full-matched error when
\* it matched fewer bytes than the text has, and the captures of the
\* match, with no error, only when it matched the whole text.
C15_ParseNeedsFullMatch ==
    entry = "Parse" =>
        /\ ~config.DisableCapturing /\ ~config.DisableLineColumnCounting
        /\ result.done =>
               /\ result.err \in ReturnedErrors =>
                      result.out.err = result.err
               /\ (result.err = NoErr /\ ~result.r.Ok) =>
                      result.out.err = errorDismatch
               /\ (result.err = NoErr /\ result.r.Ok
                       /\ result.r.N < Len(text)) =>
                      result.out.err = errorNotFullMatched
               /\ (result.err = NoErr /\ result.r.Ok
                       /\ result.r.N = Len(text)) =>
                      /\ result.out.err = NoErr
                      /\ result.out.caps = capstack[1].args
               /\ result.out.err = NoErr =>
                      /\ result.err = NoErr /\ result.r.Ok
                      /\ result.r.N = Len(text)
               /\ result.out.err # NoErr => result.out.caps = <<>>

\* Parse, called on a Config that disables capturing and counting, has
\* returned the captures of a match of the whole text
C15_Witness ==
    /\ entry = "Parse" /\ result.done
    /\ usercfg.DisableCapturing /\ usercfg.DisableLineColumnCounting
    /\ result.out.err = NoErr /\ result.out.caps # <<>> /\ Len(text) = 2

-----------------------------------------------------------------------------

\* C16: the step that raises an error is the last step of the run: from
\* then on the context is left alone and no hook, injector or constructor
\* is invoked; the run's outcome is that error and no result, whatever the
\* pattern that raised it sits under: Abort under Alt, Not, Q01 and Q0
\* ends every run with its error, and a hook or constructor that returns
\* an error ends the run with it.
C16_ErrorsPropagate ==
    /\ [](err # NoErr => last.op = "error")
    /\ []((result.done /\ err # NoErr) =>
             result.err = err /\ result.r.nil)
    /\ []((result.done /\ InSeq(main, AlwaysAbort)) =>
             result.err = errorAbort("abort:m") /\ result.r.nil)
    /\ []((last.user # <<>> /\ last.user[1].user
               /\ last.user[1].by # "Inject" /\ last.user[1].out.err) =>
             err \in {errorHook, errorUser})
    /\ [][err # NoErr =>
             /\ UNCHANGED <<config, text, at, n, pat, locals, isret, ret,
                            groups, namedGroups, levels, callstack, scopes,
                            capstack, err, pcalc, invoked>>
             /\ result'.done /\ result'.err = err]_vars

\* a hook under Alt has returned an error, and the run has ended with it
\* although the next choice of the Alt matches
C16_Witness ==
    /\ result.done /\ main = Raising[8] /\ text = <<"A", "B">>
    /\ result.err = errorHook /\ result.r.nil
    /\ last.pat.kind = "trigger" /\ last.op = "error"
    /\ Len(invoked) = 1

-----------------------------------------------------------------------------

\* t holds x at offset k
HoldsAt(t, k, x) ==
    k + Len(x) <= Len(t) /\ SubSeq(t, k + 1, k + Len(x)) = x

\* a step of Ref succeeds, consuming the text it refers to, exactly when
\* the text at the cursor begins with it
RefStep ==
    /\ last.op = "return"
    /\ IF HoldsAt(text, last.cursor, last.referred)
       THEN ret.ok /\ ret.n = Len(last.referred)
       ELSE ~ret.ok /\ ret.n = 0

\* Seq(NG(g, p), Ref(g)) matches x followed by x for the x that p matches,
\* and nothing else; the name bound twice refers to its later binding
RefDoubles ==
    /\ (result.done /\ result.err = NoErr /\ InSeq(main, Doubles)) =>
           LET m == MatchLen(main.pats[1].pat, text, 0) IN
           /\ result.r.Ok <=>
                  (m >= 0 /\ HoldsAt(text, m, SubSeq(text, 1, m)))
           /\ result.r.Ok => result.r.N = 2 * m
    /\ (result.done /\ result.err = NoErr /\ main = BoundTwice) =>
           /\ result.r.Ok <=>
                  (Len(text) >= 3 /\ text[1] = "A" /\ text[3] = text[2])
           /\ result.r.Ok => result.r.N = 3

\* C17 (as stated): every step of Ref returns as RefStep says, the text
\* referred to being the empty string when nothing is bound, and
\* Seq(NG(g, p), Ref(g)) matches exactly x followed by x.
C17_RefMatchesBoundText ==
    /\ last.pat.kind = "refer" => RefStep
    /\ (result.done /\ InSeq(main, Doubles)) => result.err = NoErr
    /\ RefDoubles

\* C17 (amended): the same with grouping enabled; with grouping disabled
\* a step of Ref ends the run with the refer-disabled error.
C17_RefMatchesBoundTextWhenGrouping ==
    /\ (last.pat.kind = "refer" /\ ~config.DisableGrouping) => RefStep
    /\ (last.pat.kind = "refer" /\ config.DisableGrouping) =>
           last.op = "error" /\ err = errorReferDisabled
    /\ (result.done /\ InSeq(main, Doubles)) =>
           result.err = IF config.DisableGrouping /\ last.pat.kind = "refer"
                        THEN errorReferDisabled ELSE NoErr
    /\ RefDoubles

\* Ref has matched the later binding of a name bound twice, found in a
\* saved frame
C17_Witness ==
    /\ main = BoundTwice /\ text = <<"A", "B", "B">>
    /\ last.pat = Ref("g") /\ last.referred = <<"B">>
    /\ last.op = "return" /\ ret.ok /\ ret.n = 1 /\ last.cursor = 2

-----------------------------------------------------------------------------

\* C18: a step of TS(S) succeeds if and only if some element of S is a
\* prefix of the text from the cursor on, and then the bytes it returns
\* as consumed are exactly the longest such element; it raises no error.
C18_TextSetLongestPrefix ==
    (last.pat.kind = "textset" /\ ~last.pat.insensitive) =>
        LET rest == SubSeq(text, last.cursor + 1, Len(text))
            S0 == {last.pat.sorted[k] : k \in DOMAIN last.pat.sorted}
            found == {e \in S0 : IsPrefix(e, rest)} IN
        /\ err = NoErr /\ last.op = "return"
        /\ ret.ok = (found # {})
        /\ ret.ok => /\ \E e \in found : Len(e) = ret.n
                     /\ \A e \in found : Len(e) <= ret.n
        /\ ~ret.ok => ret.n = 0

C18_Witness ==
    /\ main = TS(Digits) /\ text = <<"0", "2", "2">>
    /\ last.pat.kind = "textset" /\ last.op = "return"
    /\ ret.ok /\ ret.n = 1

-----------------------------------------------------------------------------

\* runes a and b are equal up to case
SameCase(a, b) ==
    a = b \/ unicode_SimpleFold(a) = b \/ unicode_SimpleFold(b) = a

\* the bytes of the prefix of t that is x up to case, rune by rune; -1
\* when t has no such prefix
CaseMatchLen(x, t) ==
    LET rx == rangeString(x, 0)
        rt == rangeString(t, 0) IN
    IF /\ Len(rt) >= Len(rx)
       /\ \A k \in DOMAIN rx : SameCase(rx[k].r, rt[k].r)
    THEN IF Len(rt) = Len(rx) THEN Len(t) ELSE rt[Len(rx) + 1].i - 1
    ELSE -1

\* C19: when TSI is called on two texts that both contain runes whose
\* case variants differ in length, and both match the text at the cursor
\* up to case, Match returns the longer of the two matches.
C19_LongerUnsafeTextFirst ==
    result.done =>
        \A x \in FoldKeys, y \in FoldKeys :
            (/\ ~couldSafelyFoldCase(x) /\ ~couldSafelyFoldCase(y)
             /\ CaseMatchLen(x, text) >= 0 /\ CaseMatchLen(y, text) >= 0
             /\ main = TSI(<<x, y>>)) =>
                /\ result.err = NoErr /\ result.r.Ok
                /\ result.r.N >= CaseMatchLen(x, text)
                /\ result.r.N >= CaseMatchLen(y, text)

\* the same for two texts of which one starts with the bytes of the other
LongerUnsafeTextFirstOfPrefixes ==
    result.done =>
        \A x \in FoldKeys, y \in FoldKeys :
            (/\ ~couldSafelyFoldCase(x) /\ ~couldSafelyFoldCase(y)
             /\ IsPrefix(x, y)
             /\ CaseMatchLen(x, text) >= 0 /\ CaseMatchLen(y, text) >= 0
             /\ main = TSI(<<x, y>>)) =>
                /\ result.err = NoErr /\ result.r.Ok
                /\ result.r.N = CaseMatchLen(y, text)

\* every match of TSI on two texts is one of the two, up to case
TSIMatchesOneOfItsTexts ==
    result.done =>
        \A x \in FoldKeys, y \in FoldKeys :
            (main = TSI(<<x, y>>) /\ main.kind # "textset") =>
                /\ result.err = NoErr
                /\ result.r.Ok = (CaseMatchLen(x, text) >= 0
                                  \/ CaseMatchLen(y, text) >= 0)
                /\ result.r.Ok =>
                       result.r.N \in {CaseMatchLen(x, text),
                                       CaseMatchLen(y, text)}

-----------------------------------------------------------------------------

\* The line breaks of t, each as the offsets it starts and ends at: a
\* CR LF, a CR that no LF follows, and an LF that follows no CR.
LineBreaks(t) ==
    {<<k - 1, k + 1>> : k \in {j \in 1..(Len(t) - 1) :
                                  t[j] = "\r" /\ t[j + 1] = "\n"}}
    \cup {<<k - 1, k>> : k \in {j \in 1..Len(t) :
                                   /\ t[j] = "\r"
                                   /\ (j = Len(t) \/ t[j + 1] # "\n")}}
    \cup {<<k - 1, k>> : k \in {j \in 1..Len(t) :
                                   /\ t[j] = "\n"
                                   /\ (j = 1 \/ t[j - 1] # "\r")}}

\* C20: a step of SOL succeeds exactly at offset 0 or at the end of a line
\* break, a step of EOL exactly at the end of the text or at the start of
\* a line break, a step of EOF exactly at the end of the text; a CR LF is
\* one line break, so that neither SOL nor EOL succeeds between its two
\* bytes; each of them returns with no byte consumed and no error.
C20_LineAnchors ==
    last.pat.kind \in {"lineanchor", "eof"} =>
        LET o == last.cursor IN
        /\ err = NoErr /\ last.op = "return" /\ ret.n = 0
        /\ ret.ok =
              CASE last.pat = SOL ->
                       o = 0 \/ \E b \in LineBreaks(text) : b[2] = o
                [] last.pat = EOL ->
                       o = Len(text) \/ \E b \in LineBreaks(text) : b[1] = o
                [] last.pat = EOF -> o = Len(text)

C20_Witness ==
    /\ text = <<"A", "\r", "\n">> /\ last.cursor = 2
    /\ last.pat = SOL /\ last.op = "return" /\ ~ret.ok /\ ret.n = 0

-----------------------------------------------------------------------------
(* Hooks on texts of several lines: Trigger under choices that go back    *)
(* over a line break, under a repetition and in a sequence, with and      *)
(* without the counting of lines and columns.                              *)

tNL == <<"\n">>

HookTexts ==
    {t \in StringsOver({tA, tNL}, MaxTextLen) : Len(t) <= MaxTextLen}

Hooking ==
    <<Alt(<<SeqP(<<T(tA \o tNL), Trigger("h", T(tA)), T(tB)>>),
            Trigger("h", T(tA))>>),
      SeqP(<<Trigger("h", Q0(T(tNL))), Trigger("h", T(tA))>>),
      Alt(<<SeqP(<<Trigger("h", Dot), Trigger("h", T(tNL)), T(tB)>>),
            Trigger("h", T(tA))>>),
      Q0(Trigger("h", Alt(<<T(tA), T(tNL)>>)))>>

HookConfigs ==
    {[TextConfig EXCEPT !.DisableLineColumnCounting = d] : d \in BOOLEAN}

HookInit ==
    \E k \in 1..Len(Hooking), t \in HookTexts, cfg \in HookConfigs :
        Start(Hooking[k], t, "Match", cfg)

HookNext ==
    \/ Text \/ RuneSet \/ Sequence \/ Alternative \/ QualifierAtLeast
    \/ Triggering
    \/ Returned

HookSpec == HookInit /\ [][HookNext]_vars

-----------------------------------------------------------------------------
(* Two calls of Match on one pattern, each with its own context, their    *)
(* steps interleaved: the first is the run of the variables above, the    *)
(* second is peer.                                                         *)

\* err := ctx.pat.match(ctx), one turn of the main loop of context.match;
\* u is what a user function called in it returns
context_match(c, u) ==
    CASE c.pat.kind = "boolean" -> patternBoolean_match(c)
      [] c.pat.kind = "text" -> patternText_match(c)
      [] c.pat.kind = "runeset" -> patternRuneSet_match(c)
      [] c.pat.kind = "textset" -> patternTextSet_match(c)
      [] c.pat.kind = "lineanchor" -> patternLineAnchorPredicate_match(c)
      [] c.pat.kind = "eof" -> patternEOFPredicate_match(c)
      [] c.pat.kind = "sequence" -> patternSequence_match(c)
      [] c.pat.kind = "alternative" -> patternAlternative_match(c)
      [] c.pat.kind = "skip" -> patternSkip_match(c)
      [] c.pat.kind = "until" -> patternAnyRuneUntil_match(c)
      [] c.pat.kind = "atleast" -> patternQualifierAtLeast_match(c)
      [] c.pat.kind = "optional" -> patternQualifierOptional_match(c)
      [] c.pat.kind = "range" -> patternQualifierRange_match(c)
      [] c.pat.kind = "predicate" -> patternPredicate_match(c)
      [] c.pat.kind = "and" -> patternAndPredicate_match(c)
      [] c.pat.kind = "or" -> patternOrPredicate_match(c)
      [] c.pat.kind = "if" -> patternIf_match(c)
      [] c.pat.kind = "switch" -> patternSwitch_match(c)
      [] c.pat.kind = "grouping" -> patternGrouping_match(c)
      [] c.pat.kind = "refer" -> patternTextReferring_match(c)
      [] c.pat.kind = "abort" -> patternAbort_match(c)
      [] c.pat.kind = "trigger" -> patternTrigger_match(c, u)
      [] c.pat.kind = "injector" -> patternInjector_match(c, u)
      [] c.pat.kind = "let" -> patternLet_match(c)
      [] c.pat.kind = "variable" -> patternCaptureVariable_match(c)
      [] c.pat.kind = "token" -> patternCaptureToken_match(c)
      [] c.pat.kind = "cons" -> patternCaptureCons_match(c, u)
      [] c.pat.kind = "term" -> patternCaptureTerm_match(c, u)

\* the user functions of the shared runs: they accept what they are given
Accepting == [err |-> FALSE, ok |-> TRUE, n |-> MaxTextLen]

\* a Match that takes the context of another call for its own
ctxOf_shared(own, other) == [other EXCEPT !.text = own.text]

\* ctx := newContext(pat, text, cfg): the context a call of Match works
\* on is the one it made, whatever other calls are running
ctxOf(own, other) == own

\* a grammar with a recursive rule, captures, a named group and a
\* reference to it, and a repeated choice with a group
Shared ==
    <<Let([x |-> SeqP(<<CK(0, T(tA)), Q01(V("x"))>>)],
          SeqP(<<NG("g", CV("x")), Q0(Alt(<<Ref("g"), T(tB)>>))>>)),
      Q0(Alt(<<SeqP(<<CK(0, T(tA)), T(tB)>>), G(T(tA)), T(tB)>>))>>

\* the longest texts that begin as both grammars do
SharedTexts == {t \in Texts : Len(t) = MaxTextLen /\ t[1] = "A"}

\* go cfg.Match(p, t1); go cfg.Match(p, t2)
SharedInit ==
    \E k \in 1..Len(Shared), t1 \in SharedTexts, t2 \in SharedTexts :
        StartBeside(Shared[k], t1, "Match", TextConfig,
                    [running |-> TRUE, done |-> FALSE, amid |-> FALSE,
                     ctx |-> newContext(Shared[k], t2, TextConfig)])

\* the first run is between two of its steps
Amid == last.op # "init" /\ err = NoErr /\ pat.kind # "nil"

\* a turn of the main loop of the second run
PeerStep ==
    /\ peer.running /\ ~peer.done
    /\ peer.ctx.err = NoErr /\ peer.ctx.pat.kind # "nil"
    /\ peer' = [peer EXCEPT
                   !.ctx = context_match(ctxOf(peer.ctx, Ctx), Accepting),
                   !.amid = @ \/ Amid]
    /\ UNCHANGED <<config, text, at, n, pat, locals, isret, ret, groups,
                   namedGroups, levels, callstack, scopes, capstack, err,
                   pcalc, invoked, main, entry, usercfg, result, last,
                   snaps, conds>>

\* ctx.match() of the second run came back: its Match builds what it
\* returns
PeerReturned ==
    /\ peer.running /\ ~peer.done
    /\ peer.ctx.err # NoErr \/ peer.ctx.pat.kind = "nil"
    /\ peer' = [peer EXCEPT !.done = TRUE]
    /\ UNCHANGED <<config, text, at, n, pat, locals, isret, ret, groups,
                   namedGroups, levels, callstack, scopes, capstack, err,
                   pcalc, invoked, main, entry, usercfg, result, last,
                   snaps, conds>>

SharedNext ==
    \/ Text \/ Sequence \/ Alternative \/ QualifierAtLeast
    \/ QualifierOptional \/ Grouping \/ TextReferring \/ LetStep
    \/ CaptureVariable \/ CaptureToken
    \/ Returned
    \/ PeerStep \/ PeerReturned

SharedSpec == SharedInit /\ [][SharedNext]_vars

-----------------------------------------------------------------------------

\* the offsets of t at which a rune starts, and the end of t
RuneStarts(t) ==
    {rangeString(t, 0)[k].i - 1 : k \in DOMAIN rangeString(t, 0)}
    \cup {Len(t)}

\* the Position of offset o of t: the line breaks that end at or before
\* o, and the runes from the end of the last of them to o
PositionOf(t, o) ==
    LET ends == {b[2] : b \in {c \in LineBreaks(t) : c[2] <= o}}
        start == IF ends = {} THEN 0
                 ELSE CHOOSE e \in ends : \A f \in ends : f <= e IN
    [Offest |-> o, Line |-> Cardinality(ends),
     Column |-> Cardinality({i \in RuneStarts(t) : start <= i /\ i < o})]

\* C21: every call of calculate, whatever the offsets asked for before
\* it, returns without a panic the offset, the number of line breaks
\* that end at or before it, and the number of runes between the start
\* of its line and it.
C21_PositionsInAnyOrder ==
    (last.op = "calculate" /\ last.offset \in RuneStarts(text)) =>
        /\ err = NoErr
        /\ last.pos = PositionOf(text, last.offset)

\* the same for the calls that ask for no offset before the first line
\* end the calculator has found; the other calls end in a panic
PositionsFromFirstLineEnd ==
    (last.op = "calculate" /\ last.offset \in RuneStarts(text)) =>
        IF last.lnends # <<>> /\ last.offset < last.lnends[1]
        THEN err = panicIndex
        ELSE /\ err = NoErr
             /\ last.pos = PositionOf(text, last.offset)

-----------------------------------------------------------------------------

\* the branch of If or Switch p that the conditions select at offset k of
\* t: the then-branch of the first condition that matches there, the
\* otherwise-branch when none does
RECURSIVE CaseOf(_, _, _, _)
CaseOf(p, j, t, k) ==
    IF j > Len(p.cases) THEN p.otherwise
    ELSE IF MatchLen(p.cases[j].cond, t, k) >= 0 THEN p.cases[j].then
    ELSE CaseOf(p, j + 1, t, k)

BranchOf(p, t, k) ==
    IF p.kind = "if"
    THEN (IF MatchLen(p.cond, t, k) >= 0 THEN p.yes ELSE p.no)
    ELSE CaseOf(p, 1, t, k)

\* the bytes the selected branch matches, through nested conditionals
RECURSIVE BranchLen(_, _, _)
BranchLen(p, t, k) ==
    IF p.kind \in {"if", "switch"} THEN BranchLen(BranchOf(p, t, k), t, k)
    ELSE MatchLen(p, t, k)

\* C22: a step of If or Switch never returns and consumes nothing: it
\* calls the next condition in order, or, when a condition has matched,
\* executes its then-branch (yes for If) at the cursor of the construct,
\* or, when the last condition has failed, the otherwise-branch (no for
\* If; True for a Switch without one); it raises no error but the
\* overflow of the callstack.  What Match returns for the construct is
\* what the selected branch matches at the start of the text: when that
\* branch fails the match fails, whatever the other branches match.
C22_OneBranchSelected ==
    /\ last.pat.kind \in {"if", "switch"} =>
          /\ last.n = 0
          /\ last.op \in {"call", "execute", "error"}
          /\ last.op = "error" => err = errorCallstackOverflow
          /\ last.op # "error" => at = last.cursor /\ n = 0
          /\ (last.op = "call" /\ last.pat.kind = "if") =>
                 ~last.wasret /\ pat = last.pat.cond
          /\ (last.op = "execute" /\ last.pat.kind = "if") =>
                 /\ last.wasret
                 /\ pat = IF last.retok THEN last.pat.yes ELSE last.pat.no
          /\ (last.op = "call" /\ last.pat.kind = "switch") =>
                 /\ last.wasret => ~last.retok
                 /\ pat = last.pat.cases[
                              last.i + (IF last.wasret THEN 2 ELSE 1)].cond
          /\ (last.op = "execute" /\ last.pat.kind = "switch") =>
                 IF last.wasret /\ last.retok
                 THEN pat = last.pat.cases[last.i + 1].then
                 ELSE /\ pat = last.pat.otherwise
                      /\ IF last.wasret
                         THEN last.i + 1 = Len(last.pat.cases)
                         ELSE Len(last.pat.cases) = 0
    /\ (result.done /\ InSeq(main, Selecting)) =>
          \/ result.err = errorCallstackOverflow
          \/ /\ result.err = NoErr
             /\ result.r.Ok = (BranchLen(main, text, 0) >= 0)
             /\ result.r.Ok => result.r.N = BranchLen(main, text, 0)

C22_Witness ==
    /\ main = Selecting[2] /\ text = <<"A", "A">>
    /\ result.done /\ result.err = NoErr
    /\ ~result.r.nil /\ ~result.r.Ok
    /\ MatchLen(main.cases[3].then, text, 0) = 1

-----------------------------------------------------------------------------

\* the bindings of the Lets that wait on callstack cs for their entry
RECURSIVE LetScopes(_)
LetScopes(cs) ==
    IF cs = <<>> THEN <<>>
    ELSE LetScopes(ButLast(cs))
         \o (IF cs[Len(cs)].pat.kind = "let"
             THEN <<cs[Len(cs)].pat.vars>> ELSE <<>>)

\* the scopes of sc that bind name
Binding(sc, name) == {k \in DOMAIN sc : name \in DOMAIN sc[k]}

\* C23: the scope stack holds the bindings of the Lets whose entry is
\* running, innermost last: a Let pushes its bindings when it calls its
\* entry and pops them when the entry returns, with success or failure,
\* so that the stack is then what it was before the Let.  A step of
\* V(name) or CV(name) starts the pattern that the innermost scope
\* binding name holds at that moment, and raises the undefined-variable
\* error when no scope binds it; that error has no other source.
C23_LetScoping ==
    /\ err = NoErr =>
          scopes = LetScopes(callstack)
                   \o (IF pat.kind = "let" /\ isret THEN <<pat.vars>>
                       ELSE <<>>)
    /\ (last.pat.kind = "let" /\ ~last.wasret /\ last.op = "call") =>
          scopes = Append(last.scopes, last.pat.vars) /\ pat = last.pat.pat
    /\ (last.pat.kind = "let" /\ last.wasret) =>
          /\ last.op = "return"
          /\ scopes = ButLast(last.scopes)
          /\ last.scopes[Len(last.scopes)] = last.pat.vars
          /\ ret.ok = last.retok /\ ret.n = last.retn
    /\ (last.pat.kind = "variable" /\ ~last.wasret) =>
          LET b == Binding(last.scopes, last.pat.varname) IN
          IF b = {} THEN err = errorUndefinedVar(last.pat.varname)
          ELSE /\ err # errorUndefinedVar(last.pat.varname)
               /\ scopes = last.scopes
               /\ last.op \in {"call", "execute"} =>
                      pat = last.scopes[CHOOSE k \in b : \A j \in b : j <= k][
                                last.pat.varname]
    /\ err = errorUndefinedVar("") =>
          /\ last.pat.kind = "variable" /\ ~last.wasret
          /\ Binding(last.scopes, last.pat.varname) = {}

\* the inner binding of x is taken inside the inner Let, the outer one
\* after it
C23_Witness ==
    /\ main = Scoping[1] /\ text = <<"B", "A">>
    /\ last.pat = V("x") /\ last.op = "execute" /\ pat = T(tA)
    /\ Len(last.scopes) = 1 /\ at = 1

-----------------------------------------------------------------------------

\* a CC, or a V or CV that captures
Constructing(p) == p.kind \in {"cons", "variable"} /\ p.cons.fn # "nil"

\* the last step was the step of a CC or CV to which its pattern returned
\* with ok
ConstructingEnded(ok) ==
    Constructing(last.pat) /\ last.wasret /\ last.retok = ok

\* the capture frames fs with capture cap appended to the innermost
Pushed(fs, cap) == [fs EXCEPT ![Len(fs)].args = Append(@, cap)]

\* the capture a CC or CV makes of the captures subs
CaptureOf(p, subs) ==
    IF p.kind = "variable"
    THEN [ctype |-> "Variable", name |-> p.varname, subs |-> subs]
    ELSE [ctype |-> "cons", name |-> p.cons.name, subs |-> subs]

-----------------------------------------------------------------------------

\* the last step was the step of a Trigger to which its pattern returned
\* with ok
TriggerEnded(ok) ==
    last.pat.kind = "trigger" /\ last.wasret /\ last.retok = ok

\* the last step called the hook once, with the span its pattern matched
\* and the position of the first byte of that span
HookCalledOnce ==
    /\ Len(last.user) = 1
    /\ last.user[1].by = "Trigger"
    /\ last.user[1].arg.span =
           SubSeq(text, last.cursor + 1, last.cursor + last.retn)
    /\ last.user[1].arg.pos =
           IF config.DisableLineColumnCounting
           THEN [Offest |-> last.cursor, Line |-> 0, Column |-> 0]
           ELSE PositionOf(text, last.cursor)

\* C25: whenever the pattern of a Trigger succeeded, the step of the
\* Trigger has called the hook exactly once, with the matched span and the
\* position of its first byte, and whenever it failed the hook was not
\* called; no other step calls a hook.
C25_HookOncePerSuccess ==
    /\ TriggerEnded(TRUE) => HookCalledOnce
    /\ TriggerEnded(FALSE) => last.user = <<>>
    /\ last.pat.kind # "trigger" =>
           \A k \in DOMAIN last.user : last.user[k].by # "Trigger"

\* the same but for the Triggers that ask for a position before the first
\* line end found so far: their step ends the run in a panic and the hook
\* is not called
HookOncePerSuccessUnlessPanic ==
    /\ TriggerEnded(TRUE) =>
           IF /\ ~config.DisableLineColumnCounting
              /\ last.lnends # <<>> /\ last.cursor < last.lnends[1]
           THEN err = panicIndex /\ last.user = <<>>
           ELSE HookCalledOnce /\ err \in {NoErr, errorHook}
    /\ TriggerEnded(FALSE) => last.user = <<>>
    /\ last.pat.kind # "trigger" =>
           \A k \in DOMAIN last.user : last.user[k].by # "Trigger"

\* no step takes back a call of a hook: whatever fails later, the calls
\* made so far stay made
HookCallsKept == [][IsPrefix(invoked, invoked')]_vars

-----------------------------------------------------------------------------

\* the most turns of the main loop a run alone is given
MaxTurns == 100

\* the context when ctx.match() comes back to a Match that runs alone on
\* context c, given at most k turns
RECURSIVE RunAlone(_, _)
RunAlone(c0, k) ==
    CHOOSE r \in {IF c.err # NoErr \/ c.pat.kind = "nil" \/ k = 0 THEN c
                  ELSE RunAlone(context_match(c, Accepting), k - 1) :
                      c \in {c0}} : TRUE

\* what Match returns for pattern p and text t when it runs alone
Alone(p, t, cfg) ==
    LET c == RunAlone(newContext(p, t, cfg), MaxTurns) IN
    IF c.err = NoErr /\ c.pat.kind # "nil" THEN [r |-> NilResult, err |-> "unfinished"]
    ELSE Config_Match(p, c)

-----------------------------------------------------------------------------

\* the last step returned to the frame of a caller
ReturnedToCaller == last.op = "return" /\ last.popped

\* C27: a call saves the caller's groups and named groups in its frame
\* and starts the child with none, and no step changes a frame below the
\* top of the callstack.  On every return to a caller: when the child
\* returned ok, the caller's groups are the saved ones followed by the
\* child's, in order, and its named groups are the saved ones with each
\* of the child's added or put in the place of the saved one of that
\* name; when the child returned not ok, the caller's groups and named
\* groups are exactly the saved ones.
C27_GroupsMergedOnReturn ==
    /\ [](ReturnedToCaller =>
             IF ret.ok
             THEN /\ groups = last.frame.groups \o ret.groups
                  /\ DOMAIN namedGroups = (DOMAIN last.frame.namedGroups)
                                              \cup (DOMAIN ret.namedGroups)
                  /\ \A k \in DOMAIN namedGroups :
                         namedGroups[k] = IF k \in DOMAIN ret.namedGroups
                                          THEN ret.namedGroups[k]
                                          ELSE last.frame.namedGroups[k]
             ELSE /\ groups = last.frame.groups
                  /\ namedGroups = last.frame.namedGroups)
    /\ [][/\ \A k \in 1..Min(Len(callstack), Len(callstack')) :
                callstack'[k] = callstack[k]
          /\ Len(callstack') > Len(callstack) =>
                /\ Len(callstack') = Len(callstack) + 1
                /\ callstack'[Len(callstack')].groups = groups
                /\ callstack'[Len(callstack')].namedGroups = namedGroups
                /\ groups' = <<>> /\ namedGroups' = NoNames]_vars

\* a child that bound g and made a group has returned ok to a sequence
\* that held a group and another text for g
C27_Witness ==
    /\ ReturnedToCaller /\ ret.ok /\ main = Merging[1]
    /\ last.frame.groups = <<tA>> /\ ret.groups = <<tB>>
    /\ last.frame.namedGroups = [g |-> tA] /\ namedGroups = [g |-> tB]
    /\ groups = <<tA, tB>>

\* a sequence that bound g and made a group has failed, and its caller
\* holds what it held
GroupsOfFailedChildGone ==
    /\ ReturnedToCaller /\ ~ret.ok /\ main = Merging[1]
    /\ ret.groups # <<>> /\ groups = <<>> /\ namedGroups = NoNames

-----------------------------------------------------------------------------

\* C28: in every state of a run the cursor and the start of the span of
\* the frame lie in the text, the start not after the cursor:
\* 0 <= at - n <= at <= len(text), whatever the pattern and whatever the
\* injectors return.
C28_CursorWithinText ==
    /\ 0 <= at - n
    /\ at - n <= at
    /\ at <= Len(text)

\* an injector has returned more bytes than the pattern under it matched
Overshot ==
    \E k \in DOMAIN invoked :
        /\ invoked[k].by = "Inject"
        /\ invoked[k].out.ok /\ invoked[k].out.n > Len(invoked[k].arg)

\* the same for the runs in which no injector has returned more bytes
\* than it was given
CursorWithinTextUnlessOvershot == ~Overshot => C28_CursorWithinText

-----------------------------------------------------------------------------

\* the execute steps taken so far by the frames that are still live: those
\* on the callstack and the running one
RECURSIVE LiveExecutes(_)
LiveExecutes(cs) ==
    IF cs = <<>> THEN 0 ELSE cs[Len(cs)].execs + LiveExecutes(ButLast(cs))

\* C29: with a positive CallstackLimit the depth (ctx.levels) never
\* exceeds the limit; it is the length of the callstack plus the number
\* of execute steps taken by the frames that are still live, so at least
\* the length of the callstack.  In every state of a run call, and
\* execute when nothing is consumed, fail with the callstack-overflow
\* error, changing nothing, exactly when the depth has reached the limit;
\* otherwise they add one to the depth, call pushing one frame and execute
\* none.  The steps taken bear this out: a step that called or executed
\* started below the limit and added one to the depth, only the step
\* that called pushed a frame, and a step that ended in the overflow
\* error started at the limit and left depth and callstack alone.
C29_DepthAccounting ==
    /\ levels <= config.CallstackLimit
    /\ levels = Len(callstack) + LiveExecutes(conds)
    /\ levels >= Len(callstack)
    /\ callstack # <<>> => levels >= 1
    /\ (err = NoErr /\ ~result.done) =>
          LET called == call(Ctx, pat)
              executed == execute(Ctx, pat) IN
          /\ IF levels >= config.CallstackLimit
             THEN called = fails(Ctx, errorCallstackOverflow)
             ELSE /\ called.err = NoErr /\ called.levels = levels + 1
                  /\ Len(called.callstack) = Len(callstack) + 1
                  /\ ButLast(called.callstack) = callstack
          /\ n = 0 =>
                IF levels >= config.CallstackLimit
                THEN executed = fails(Ctx, errorCallstackOverflow)
                ELSE /\ executed.err = NoErr /\ executed.levels = levels + 1
                     /\ executed.callstack = callstack
    /\ last.op = "call" =>
          /\ last.levels < config.CallstackLimit
          /\ levels = last.levels + 1
          /\ Len(callstack) = last.height + 1
    /\ last.op = "execute" =>
          /\ last.levels < config.CallstackLimit
          /\ levels = last.levels + 1
          /\ Len(callstack) = last.height
    /\ last.op = "return" => Len(callstack) <= last.height
    /\ (last.op = "error" /\ err = errorCallstackOverflow) =>
          /\ last.levels >= config.CallstackLimit
          /\ levels = last.levels
          /\ Len(callstack) = last.height

\* a call has failed at the limit, the depth made of frames and of
\* execute steps of live frames
C29_Witness ==
    /\ last.op = "error" /\ err = errorCallstackOverflow
    /\ last.pat.kind = "if" /\ ~last.wasret
    /\ levels = config.CallstackLimit
    /\ main = R1 /\ Len(callstack) = 1
    /\ LiveExecutes(conds) = config.CallstackLimit - 1

-----------------------------------------------------------------------------

\* C30: no run raises the execute-when-consumed error: every step that
\* executes a pattern (the last choice of Alt, a branch of If, When or
\* Switch, the pattern of V) is taken by a frame that has consumed
\* nothing, whatever the frames below it have consumed and however many
\* patterns that frame has executed before, and the pattern executed
\* starts with nothing consumed.
C30_ExecuteWithNothingConsumed ==
    /\ err # errorExecuteWhenConsumed
    /\ result.done => result.err # errorExecuteWhenConsumed
    /\ last.op = "execute" =>
          /\ last.n = 0 /\ n = 0
          /\ last.pat.kind \in {"alternative", "if", "switch", "variable"}
    /\ (err = NoErr /\ ~result.done /\ ~isret
            /\ pat.kind \in {"if", "switch", "variable"}) => n = 0
    /\ (err = NoErr /\ ~result.done /\ pat.kind = "alternative"
            /\ (isret => ~ret.ok)) => n = 0

\* the fourth pattern in a row executed in one frame, below frames that
\* have consumed text
C30_Witness ==
    /\ main = Chained[1] /\ last.op = "execute"
    /\ last.pat.kind = "alternative" /\ last.wasret /\ n = 0
    /\ conds[Len(conds)].execs = 4
    /\ callstack # <<>> /\ callstack[Len(callstack)].n > 0
    /\ at = 2

-----------------------------------------------------------------------------

\* C31: a call is transparent to the frame of the caller.  The step that
\* calls pushes one frame that holds the caller's pat, the cursor the
\* callee starts at, the start of the caller's span and the caller's
\* depth, and starts the callee one level deeper with nothing consumed;
\* no step changes a frame below the top of the callstack; the step
\* that returns to the caller pops that frame alone and leaves pat, at,
\* n, locals and levels exactly as the frame holds them, whatever the
\* cursor and the depth of the callee were and whether it matched: the
\* cursor has not moved by the ret.n of the callee.
C31_CallTransparent ==
    [][/\ \A k \in 1..Min(Len(callstack), Len(callstack')) :
              callstack'[k] = callstack[k]
       /\ Len(callstack') > Len(callstack) =>
              LET frame == callstack'[Len(callstack')] IN
              /\ Len(callstack') = Len(callstack) + 1
              /\ frame.pat = pat
              /\ frame.at = at' /\ frame.at - frame.n = at - n
              /\ frame.levels = levels /\ levels' = levels + 1
              /\ n' = 0 /\ ~isret'
       /\ Len(callstack') < Len(callstack) =>
              LET frame == callstack[Len(callstack)] IN
              /\ Len(callstack') = Len(callstack) - 1
              /\ pat' = frame.pat
              /\ at' = frame.at
              /\ n' = frame.n
              /\ locals' = frame.locals
              /\ levels' = frame.levels
              /\ isret']_vars

\* a callee that went on through executes and moved the cursor has
\* failed, and its caller stands where the frame says
C31_Witness ==
    /\ ReturnedToCaller /\ ~ret.ok
    /\ last.cursor > at /\ last.levels > levels + 1
    /\ at = last.frame.at /\ n = last.frame.n
    /\ locals = last.frame.locals /\ levels = last.frame.levels

\* a callee that matched text has returned, and the cursor of its caller
\* has not moved
CalleeMatchedCursorKept ==
    /\ ReturnedToCaller /\ ret.ok /\ ret.n > 0
    /\ last.cursor = at + ret.n /\ at = last.frame.at

-----------------------------------------------------------------------------

\* the patterns that call one sub-pattern after another from a loop
Looping ==
    {"sequence", "alternative", "and", "or", "switch", "atleast", "range",
     "until"}

\* the sub-patterns a looping pattern goes through, in order
Children(p) ==
    CASE p.kind \in {"sequence", "alternative", "and", "or"} -> p.pats
      [] p.kind = "switch" ->
             [k \in 1..Len(p.cases) |-> p.cases[k].cond]
      [] OTHER -> <<>>

\* the outcome that makes a looping pattern go on to its next sub-pattern
GoesOn(p, ok) ==
    IF p.kind \in {"sequence", "and", "atleast", "range"} THEN ok ELSE ~ok

\* C32: each outcome of a callee is handled exactly once.  In a running
\* context the flag isret is set exactly when the last step returned, ret
\* is then what that step returned and pat the pattern of the frame it
\* returned to (nil under the main pattern); a step that calls or
\* executes leaves the flag clear and ret empty, and ret changes in no
\* other step.  The step of a looping pattern that is resumed with an
\* outcome that makes it go on counts that outcome once: when it calls,
\* its counter is one more than before and the callee is its next
\* sub-pattern, never the one after; and it does call (or execute its
\* last choice or branch) as long as a sub-pattern is left.  A Switch
\* resumed with a condition that matched executes the branch of that
\* condition.
C32_OutcomeHandledOnce ==
    /\ [](err = NoErr =>
             /\ isret <=> last.op = "return"
             /\ last.op \in {"call", "execute"} => ret = NoRet
             /\ (isret /\ last.popped) => pat = last.frame.pat
             /\ (isret /\ ~last.popped) => pat = NoPat /\ callstack = <<>>
             /\ (last.op \in {"call", "execute"}
                    /\ last.pat.kind \in Looping) =>
                    LET i == last.i + (IF last.wasret THEN 1 ELSE 0)
                        children == Children(last.pat) IN
                    /\ last.op = "call" =>
                           /\ last.wasret => GoesOn(last.pat, last.retok)
                           /\ callstack[Len(callstack)].locals.i = i
                           /\ pat = IF children = <<>> THEN last.pat.pat
                                    ELSE children[i + 1]
                    /\ (last.op = "execute"
                           /\ last.pat.kind = "alternative") =>
                           /\ last.wasret => ~last.retok
                           /\ i = Len(children) - 1
                           /\ pat = children[i + 1]
                    /\ (last.op = "execute" /\ last.pat.kind = "switch") =>
                           IF last.wasret /\ last.retok
                           THEN pat = last.pat.cases[last.i + 1].then
                           ELSE /\ i = Len(children)
                                /\ pat = last.pat.otherwise
             /\ (last.op = "return" /\ last.wasret
                    /\ last.pat.kind \in Looping
                    /\ GoesOn(last.pat, last.retok)) =>
                    CASE last.pat.kind = "atleast" -> FALSE
                      [] last.pat.kind = "range" ->
                             last.i + 1 >= last.pat.n
                      [] last.pat.kind = "until" -> ~ret.ok
                      [] last.pat.kind = "switch" -> FALSE
                      [] OTHER -> last.i + 1 >= Len(Children(last.pat)))
    /\ [][(ret' # ret /\ err' = NoErr) => (isret' \/ ret' = NoRet)]_vars

\* a sequence resumed with the match of its first sub-pattern has called
\* its second, and a sequence resumed with that of its second has
\* returned
C32_Witness ==
    /\ err = NoErr /\ last.op = "call" /\ last.wasret /\ last.retok
    /\ last.pat.kind = "sequence" /\ Len(last.pat.pats) = 3
    /\ last.i = 0 /\ callstack[Len(callstack)].locals.i = 1
    /\ pat = last.pat.pats[2] /\ ~isret /\ ret = NoRet

-----------------------------------------------------------------------------

\* C33: the capture stack always has a frame, and its bottom frame has no
\* constructor; no run ends with the corner-case error.  Only a CC or a
\* CV with a constructor changes the height of the capture stack, and
\* only while capturing is enabled: by one frame more in the step that
\* calls its sub-pattern (or ends the run at the callstack limit), by
\* one frame less in the step it is resumed in.  Every return to a caller finds the capture stack as high as it
\* was when the callee was called, so that a CC or CV that returns, with
\* success or failure, leaves it as high as it found it; the main
\* pattern returns with the bottom frame alone.
C33_CaptureStackBalanced ==
    /\ [](/\ Len(capstack) >= 1
          /\ capstack[1].cons = NilCons
          /\ err # errorCornerCase
          /\ result.done => result.err # errorCornerCase
          /\ ReturnedToCaller => Len(capstack) = Len(last.snap)
          /\ (last.op = "return" /\ ~last.popped) => Len(capstack) = 1
          /\ (last.op = "return" /\ Constructing(last.pat)) =>
                 Len(capstack) = Len(last.capstack)
                                     - (IF config.DisableCapturing
                                        THEN 0 ELSE 1))
    /\ [][Len(capstack') # Len(capstack) =>
              /\ Constructing(pat) /\ ~config.DisableCapturing
              /\ IF isret THEN Len(capstack') = Len(capstack) - 1
                 ELSE /\ Len(capstack') = Len(capstack) + 1
                      /\ \/ Len(callstack') = Len(callstack) + 1
                         \/ err' = errorCallstackOverflow]_vars

\* a CV under a CC has failed and has returned to its caller, its frame
\* gone and the frame of the CC left
C33_Witness ==
    /\ ReturnedToCaller /\ last.pat.kind = "variable" /\ ~ret.ok
    /\ pat.kind = "cons"
    /\ ~config.DisableCapturing
    /\ Len(last.capstack) = 3 /\ Len(capstack) = 2
    /\ Len(last.snap) = 2

-----------------------------------------------------------------------------
(* The alternative before its last choice was executed, beside the one of  *)
(* today: Match is called on a pattern and a text, and called again with   *)
(* every alternative of the pattern matching as the older one did.         *)

\* patternAlternative.match before the optimisation: every choice is
\* called, the last one too
RECURSIVE patternAlternative_match_calling(_)
patternAlternative_match_calling(c) ==
    IF c.locals.i < Len(c.pat.pats)
    THEN LET j == justReturned(c) IN
         IF ~j.was THEN call(j.ctx, c.pat.pats[c.locals.i + 1])
         ELSE IF j.ctx.ret.ok THEN commit(consume(j.ctx, j.ctx.ret.n))
         ELSE patternAlternative_match_calling(
                  [j.ctx EXCEPT !.locals.i = @ + 1])
    ELSE predicates(c, FALSE)

\* err := ctx.pat.match(ctx) with the older alternative
context_match_older(c, u) ==
    IF c.pat.kind = "alternative" THEN patternAlternative_match_calling(c)
    ELSE context_match(c, u)

\* a choice that groups and captures in last place, an alternative in the
\* last place of another, a reference in last place to a group of the
\* caller, a recursive rule whose last choice ends the recursion, a
\* repeated alternative, a CV in last place, predicates in last place,
\* and alternatives that a condition which grouped hands on to
Tails ==
    <<Alt(<<SeqP(<<CK(0, T(tA)), T(tB)>>), NG("g", G(T(tA)))>>),
      Alt(<<T(tAB), Alt(<<T(tB), SeqP(<<G(sAB), sAB>>)>>)>>),
      SeqP(<<G(sAB), Alt(<<T(tB), Ref("")>>)>>),
      Let([x |-> Alt(<<SeqP(<<T(tA), V("x")>>), T(tB)>>)], V("x")),
      Q0(Alt(<<T(tA), Q01(T(tB))>>)),
      Let([x |-> CK(0, T(tA))], Alt(<<T(tB), CV("x")>>)),
      SeqP(<<Alt(<<T(tB), Test(T(tA))>>), sAB>>),
      SeqP(<<If(G(T(tA)), Alt(<<T(tB), T(tA)>>), False), Q0(sAB)>>),
      SeqP(<<If(G(T(tA)), Alt(<<T(tB), Let([x |-> T(tA)], V("x"))>>), False),
             Q0(sAB)>>)>>

\* cfg.Match(p, t), and cfg.Match(p, t) with the older alternative
TailInit ==
    \E k \in 1..Len(Tails), t \in Texts, cfg \in Configs :
        StartBeside(Tails[k], t, "Match", cfg,
                    [running |-> TRUE, done |-> FALSE,
                     ctx |-> newContext(Tails[k], t, cfg)])

\* a turn of the main loop of the run with the older alternative
OlderTurn ==
    /\ peer.running /\ ~peer.done
    /\ peer.ctx.err = NoErr /\ peer.ctx.pat.kind # "nil"
    /\ peer' = [peer EXCEPT !.ctx = context_match_older(peer.ctx, Accepting)]
    /\ UNCHANGED <<config, text, at, n, pat, locals, isret, ret, groups,
                   namedGroups, levels, callstack, scopes, capstack, err,
                   pcalc, invoked, main, entry, usercfg, result, last,
                   snaps, conds>>

\* ctx.match() of the run with the older alternative came back
OlderReturned ==
    /\ peer.running /\ ~peer.done
    /\ peer.ctx.err # NoErr \/ peer.ctx.pat.kind = "nil"
    /\ peer' = [peer EXCEPT !.done = TRUE]
    /\ UNCHANGED <<config, text, at, n, pat, locals, isret, ret, groups,
                   namedGroups, levels, callstack, scopes, capstack, err,
                   pcalc, invoked, main, entry, usercfg, result, last,
                   snaps, conds>>

TailNext ==
    \/ Boolean \/ Text \/ RuneSet \/ Sequence \/ Alternative
    \/ QualifierAtLeast \/ QualifierOptional \/ Predicate \/ IfStep
    \/ Grouping \/ TextReferring \/ LetStep \/ CaptureVariable
    \/ CaptureToken
    \/ Returned
    \/ OlderTurn \/ OlderReturned

TailSpec == TailInit /\ [][TailNext]_vars

\* both runs have ended
BothEnded == result.done /\ peer.running /\ peer.done

\* C34: executing the last choice cannot be observed: Match on a pattern
\* and Match on it with every alternative calling its last choice as the
\* older one did return the same result (Ok, N, Groups, NamedGroups,
\* Captures) and the same error, for every text and configuration.
C34_TailCallUnobservable ==
    BothEnded =>
        [r |-> result.r, err |-> result.err] = Config_Match(main, peer.ctx)

\* the same of every pattern but the one whose alternative, executed by an
\* If in the frame that holds the group of the condition, executes a Let
TailCallUnobservableElsewhere ==
    (BothEnded /\ main # Tails[Len(Tails)]) =>
        [r |-> result.r, err |-> result.err] = Config_Match(main, peer.ctx)

\* both runs have matched with the same group, named group and capture,
\* the older one through a call of the last choice
TailCallSame ==
    /\ BothEnded /\ main = Tails[1] /\ result.err = NoErr /\ result.r.Ok
    /\ result.r.Groups = <<tA>> /\ result.r.NamedGroups = [g |-> tA]
    /\ Config_Match(main, peer.ctx).r = result.r

-----------------------------------------------------------------------------

\* the main loop has been left with no error
LoopLeft == err = NoErr /\ pat = NoPat /\ main # NoPat

\* C35: the main loop is left without error only by a step that returns
\* with the callstack empty, taken by the main pattern or by a pattern
\* the frame of the main pattern came to through executes alone: then
\* nothing was popped, the callstack is empty, every scope of a Let has
\* been left, the flag is set, and ret is the outcome of the main
\* pattern (for a pattern without side effects, the match and the
\* length the pattern has on the text); Match reports that ret, Ok and N,
\* and reports nothing while the loop runs.
C35_RunEndsAtBottomReturn ==
    /\ LoopLeft =>
           /\ isret /\ last.op = "return"
           /\ ~last.popped /\ last.height = 0
           /\ callstack = <<>> /\ scopes = <<>>
           /\ Len(conds) = 1 /\ levels = conds[1].execs
           /\ levels = 0 => last.pat = main
           /\ Pure(main) =>
                  LET m == MatchLen(main, text, 0) IN
                  /\ ret.ok <=> m >= 0
                  /\ ret.ok => ret.n = m
    /\ (result.done /\ result.err = NoErr) =>
           /\ LoopLeft
           /\ result.r.Ok = ret.ok
           /\ result.r.N = IF ret.ok THEN ret.n ELSE 0
    /\ (result.done /\ main # NoPat /\ pat # NoPat) => result.err = err
    /\ (err = NoErr /\ pat # NoPat) => ~result.done

\* a Let given as the main pattern has matched text and has returned
\* with the callstack empty, its scope left in that step
C35_Witness ==
    /\ result.done /\ result.err = NoErr /\ result.r.Ok /\ result.r.N > 0
    /\ main.kind = "let" /\ last.pat = main
    /\ last.scopes # <<>> /\ scopes = <<>>

\* the run has ended by the return of a pattern that the frame of the main
\* pattern came to through two executes, with no match
EndedInExecuteChain ==
    /\ result.done /\ result.err = NoErr /\ ~result.r.Ok
    /\ levels >= 2 /\ last.pat # main /\ callstack = <<>>

-----------------------------------------------------------------------------
(* The start of a line as SOL sees it and as the position calculator      *)
(* counts it: at each offset of a text, a token tells whether SOL          *)
(* succeeded there and holds the Position that tell() gave for it.         *)

\* a token of type 0 where SOL succeeds, of type 1 where it does not
Probe == If(SOL, CK(0, True), CK(1, True))

\* a probe at each of the offsets 0..k, a rune between two of them
RECURSIVE Probes(_)
Probes(k) == IF k = 0 THEN <<Probe>> ELSE <<Probe, Dot>> \o Probes(k - 1)

\* cfg.Match(Seq(Probe, Dot, Probe, ...), t) over the offsets of t
LineInit ==
    \E t \in LineTexts :
        \E k \in 0..Len(t) : Start(SeqP(Probes(k)), t, "Match", TextConfig)

LineNext ==
    \/ Boolean \/ RuneSet \/ Sequence \/ LineAnchor \/ IfStep
    \/ CaptureToken
    \/ Returned

LineSpec == LineInit /\ [][LineNext]_vars

\* C36: SOL and the position calculator agree on where lines start.  At
\* every offset k of every text, SOL succeeds exactly when the Position
\* that tell() gives for k has Column 0, and the Line of that Position
\* is the number of the offsets j, 0 < j <= k, at which SOL succeeded;
\* no probe fails and no call of the calculator panics.
C36_LineStartsAgree ==
    result.done =>
        LET caps == result.r.Captures IN
        /\ result.err = NoErr /\ result.r.Ok
        /\ main = SeqP(Probes(Len(caps) - 1))
        /\ \A j \in 1..Len(caps) :
               /\ caps[j].pos.Offest = j - 1
               /\ (caps[j].toktype = 0) <=> (caps[j].pos.Column = 0)
               /\ caps[j].pos.Line
                      = Cardinality({i \in 2..j : caps[i].toktype = 0})

\* on "\r\nA" SOL has succeeded at 0 and at 2, not between the CR and the
\* LF nor at 3, which is column 1 of line 1
C36_Witness ==
    /\ result.done /\ text = <<"\r", "\n", "A">>
    /\ Len(result.r.Captures) = 4
    /\ [j \in 1..4 |-> result.r.Captures[j].toktype] = <<0, 1, 0, 1>>
    /\ result.r.Captures[2].pos = [Offest |-> 1, Line |-> 0, Column |-> 1]
    /\ result.r.Captures[4].pos = [Offest |-> 3, Line |-> 1, Column |-> 1]

====
